---- MODULE Spec2Model ----
(***************************************************************************)
(* Model of the UP (Unified Properties) parser, class Parser of up.ts.     *)
(* A string is a sequence of one-character strings; a line index is        *)
(* 0-based as in the source, so lines[i] of the source is LineAt(ls, i).   *)
(***************************************************************************)
EXTENDS Integers, Sequences, FiniteSets, TLC

\* input, lines, i, nodes: the text of the running parse call, its lines, the
\* index of the current line and the nodes built so far; spans: for each
\* node the index of its first line and of the line after its last; pc:
\* where the call stands; previous: the text of the call made before this
\* one on the same parser instance.
VARIABLES input, lines, i, nodes, spans, pc, previous

vars == <<input, lines, i, nodes, spans, pc, previous>>

\* Largest number of lines of an input text.
MaxLines == 3

\* Largest number of lines of an input text of one-line headers.
MaxHeaders == 2

\* Largest number of lines of a text given to an instance that is called again.
MaxCallLines == 2

\* Largest number of characters of an enumerated value remainder.
MaxRemainder == 4

(***************************************************************************)
(* Characters and the string primitives of the host language.              *)
(***************************************************************************)
LF == "\n"
CR == "\r"
SP == " "
TAB == "\t"
BANG == "!"
COLON == ":"
HASH == "#"
QUOTE == "\""
COMMA == ","
LBRACE == "{"
RBRACE == "}"
LBRACKET == "["
RBRACKET == "]"
\* The grave accent (the module syntax cannot quote it).
BACKTICK == "backtick"

Fence == <<BACKTICK, BACKTICK, BACKTICK>>
UseToken == <<BANG, "u", "s", "e">>
LintToken == <<BANG, "l", "i", "n", "t">>
SchemeSep == <<COLON, "/", "/">>
QuotedWord == <<"q", "u", "o", "t", "e", "d">>
StringWord == <<"s", "t", "r", "i", "n", "g">>
DirectiveWord == <<"d", "i", "r", "e", "c", "t", "i", "v", "e">>
UseKey == <<"_", "u", "s", "e">>
LintKey == <<"_", "l", "i", "n", "t">>
ProtoKey == <<"_", "_", "p", "r", "o", "t", "o", "_", "_">>

\* White space of String.prototype.trim and of the regular expression class \s.
WhiteSpace == {SP, TAB, CR, LF}

\* Characters the regular expression atom . does not match.
LineTerminator == {LF, CR}

Digits == {"0", "1", "2", "3", "4", "5", "6", "7", "8", "9"}

DigitVal(c) == CASE c = "0" -> 0 [] c = "1" -> 1 [] c = "2" -> 2 [] c = "3" -> 3
                 [] c = "4" -> 4 [] c = "5" -> 5 [] c = "6" -> 6 [] c = "7" -> 7
                 [] c = "8" -> 8 [] c = "9" -> 9

Min(a, b) == IF a < b THEN a ELSE b
Max(a, b) == IF a > b THEN a ELSE b

RECURSIVE TrimStart(_)
TrimStart(s) ==
    IF s = <<>> THEN <<>>
    ELSE IF Head(s) \in WhiteSpace THEN TrimStart(Tail(s)) ELSE s

RECURSIVE TrimEnd(_)
TrimEnd(s) ==
    IF s = <<>> THEN <<>>
    ELSE IF s[Len(s)] \in WhiteSpace THEN TrimEnd(SubSeq(s, 1, Len(s) - 1)) ELSE s

Trim(s) == TrimEnd(TrimStart(s))

StartsWith(s, p) == Len(s) >= Len(p) /\ SubSeq(s, 1, Len(p)) = p

EndsWith(s, p) == Len(s) >= Len(p) /\ SubSeq(s, Len(s) - Len(p) + 1, Len(s)) = p

Includes(s, p) == \E k \in 0..(Len(s) - Len(p)) : SubSeq(s, k + 1, k + Len(p)) = p

\* String.prototype.indexOf for a one-character needle: 0-based, -1 when absent.
IndexOf(s, c) ==
    IF \E k \in 1..Len(s) : s[k] = c
    THEN (CHOOSE k \in 1..Len(s) : s[k] = c /\ \A j \in 1..(k - 1) : s[j] # c) - 1
    ELSE -1

\* String.prototype.slice(a, b): negative arguments count from the end.
SliceIdx(n, len) == IF n < 0 THEN Max(len + n, 0) ELSE Min(n, len)

Slice(s, a, b) ==
    LET from == SliceIdx(a, Len(s))
        to == SliceIdx(b, Len(s))
    IN IF from >= to THEN <<>> ELSE SubSeq(s, from + 1, to)

SliceFrom(s, a) == Slice(s, a, Len(s))

\* String.prototype.split for a one-character separator.
RECURSIVE Split(_, _)
Split(s, c) ==
    LET k == IndexOf(s, c)
    IN IF k = -1 THEN <<s>>
       ELSE <<SubSeq(s, 1, k)>> \o Split(SubSeq(s, k + 2, Len(s)), c)

\* Array.prototype.join with separator string sep.
RECURSIVE Join(_, _)
Join(ss, sep) ==
    IF ss = <<>> THEN <<>>
    ELSE IF Len(ss) = 1 THEN ss[1]
    ELSE ss[1] \o sep \o Join(Tail(ss), sep)

LineAt(ls, k) == ls[k + 1]

(***************************************************************************)
(* Values.                                                                 *)
(***************************************************************************)
Scalar(t) == [kind |-> "scalar", text |-> t]
BlockOf(es) == [kind |-> "block", entries |-> es]
ListOf(xs) == [kind |-> "list", items |-> xs]
UseOf(ns) == [kind |-> "use", namespaces |-> ns]

\* typeAnnotation: null / undefined against a string.
NoAnnotation == [some |-> FALSE, text |-> <<>>]

\* No call was made on the instance before the running one.
NoCall == [some |-> FALSE, text |-> <<>>]
Annotation(t) == [some |-> TRUE, text |-> t]

MkNode(k, a, v) == [key |-> k, typeAnnotation |-> a, value |-> v]

\* The decimal value of a short string of digits.
RECURSIVE ToNat(_)
ToNat(s) == IF s = <<>> THEN 0 ELSE 10 * ToNat(SubSeq(s, 1, Len(s) - 1)) + DigitVal(s[Len(s)])

\* Order of two canonical numeric strings by value.
RECURSIVE DigitsLess(_, _)
DigitsLess(a, b) ==
    IF a = <<>> \/ b = <<>> THEN FALSE
    ELSE IF DigitVal(Head(a)) # DigitVal(Head(b)) THEN DigitVal(Head(a)) < DigitVal(Head(b))
    ELSE DigitsLess(Tail(a), Tail(b))

NumLess(a, b) == Len(a) < Len(b) \/ (Len(a) = Len(b) /\ DigitsLess(a, b))

\* The largest array index, 2^32 - 2.
MaxArrayIndex == <<"4", "2", "9", "4", "9", "6", "7", "2", "9", "4">>

\* A property key that is an array index: a canonical numeric string up to 2^32 - 2.
IsArrayIndex(k) ==
    /\ k # <<>>
    /\ \A n \in 1..Len(k) : k[n] \in Digits
    /\ (Len(k) > 1 => k[1] # "0")
    /\ ~NumLess(MaxArrayIndex, k)

HasKey(es, k) == \E n \in 1..Len(es) : es[n].key = k

\* block[key] = value on an object literal: the entries are kept in the order
\* in which the object enumerates its own keys.
BlockSet(es, k, v) ==
    IF k = ProtoKey THEN es
    ELSE IF HasKey(es, k)
    THEN [n \in 1..Len(es) |-> IF es[n].key = k THEN [key |-> k, value |-> v] ELSE es[n]]
    ELSE IF IsArrayIndex(k)
    THEN LET before == {n \in 1..Len(es) : IsArrayIndex(es[n].key) /\ NumLess(es[n].key, k)}
             m == Cardinality(before)
         IN SubSeq(es, 1, m) \o <<[key |-> k, value |-> v]>> \o SubSeq(es, m + 1, Len(es))
    ELSE Append(es, [key |-> k, value |-> v])

(***************************************************************************)
(* Key/value splitting.                                                    *)
(***************************************************************************)
\* Length of the longest prefix of s made of characters outside (inside) ws.
RECURSIVE RunOutside(_, _)
RunOutside(s, ws) ==
    IF s = <<>> \/ Head(s) \in ws THEN 0 ELSE 1 + RunOutside(Tail(s), ws)

RECURSIVE RunInside(_, _)
RunInside(s, ws) ==
    IF s = <<>> \/ Head(s) \notin ws THEN 0 ELSE 1 + RunInside(Tail(s), ws)

\* line.match(/^(\S+)\s*(.*)$/): the greedy split, which is the match if there is one.
MatchHeader(line) ==
    LET k == RunOutside(line, WhiteSpace)
        afterKey == SliceFrom(line, k)
        w == RunInside(afterKey, WhiteSpace)
        rest == SliceFrom(afterKey, w)
    IN [ok |-> k > 0 /\ \A n \in 1..Len(rest) : rest[n] \notin LineTerminator,
        key |-> SubSeq(line, 1, k),
        rest |-> rest]

\* Variant: every layer of surrounding double quotes is removed.
RECURSIVE StripSurroundingQuotes_EveryLayer(_)
StripSurroundingQuotes_EveryLayer(s) ==
    IF Len(s) >= 2 /\ StartsWith(s, <<QUOTE>>) /\ EndsWith(s, <<QUOTE>>)
    THEN StripSurroundingQuotes_EveryLayer(Slice(s, 1, -1))
    ELSE s

StripSurroundingQuotes(s) ==
    IF Len(s) >= 2 /\ StartsWith(s, <<QUOTE>>) /\ EndsWith(s, <<QUOTE>>)
    THEN Slice(s, 1, -1)
    ELSE s

\* The comment handling of the line-oriented branch: the text from the first # on is dropped.
DropComment(valPart) ==
    LET commentIdx == IndexOf(valPart, HASH)
    IN IF commentIdx >= 0 THEN Trim(Slice(valPart, 0, commentIdx)) ELSE valPart

\* Variant: the traditional branch drops a trailing comment as the line-oriented one does.
SplitKeyValue_CommentInBothModes(line) ==
    LET m == MatchHeader(line)
    IN IF ~m.ok
       THEN [keyPart |-> Trim(line), valPart |-> <<>>, lineOriented |-> FALSE]
       ELSE IF EndsWith(m.key, <<COLON>>) /\ ~Includes(m.key, SchemeSep)
       THEN [keyPart |-> Slice(m.key, 0, -1),
             valPart |-> StripSurroundingQuotes(DropComment(Trim(m.rest))),
             lineOriented |-> TRUE]
       ELSE [keyPart |-> m.key,
             valPart |-> StripSurroundingQuotes(DropComment(m.rest)),
             lineOriented |-> FALSE]

\* Variant: the remainder is trimmed in traditional mode too.
SplitKeyValue_TrimsBoth(line) ==
    LET m == MatchHeader(line)
    IN IF ~m.ok
       THEN [keyPart |-> Trim(line), valPart |-> <<>>, lineOriented |-> FALSE]
       ELSE IF EndsWith(m.key, <<COLON>>) /\ ~Includes(m.key, SchemeSep)
       THEN [keyPart |-> Slice(m.key, 0, -1),
             valPart |-> StripSurroundingQuotes(DropComment(Trim(m.rest))),
             lineOriented |-> TRUE]
       ELSE [keyPart |-> m.key,
             valPart |-> StripSurroundingQuotes(Trim(m.rest)),
             lineOriented |-> FALSE]

SplitKeyValue(line) ==
    LET m == MatchHeader(line)
    IN IF ~m.ok
       THEN [keyPart |-> Trim(line), valPart |-> <<>>, lineOriented |-> FALSE]
       ELSE IF EndsWith(m.key, <<COLON>>) /\ ~Includes(m.key, SchemeSep)
       THEN [keyPart |-> Slice(m.key, 0, -1),
             valPart |-> StripSurroundingQuotes(DropComment(Trim(m.rest))),
             lineOriented |-> TRUE]
       ELSE [keyPart |-> m.key,
             valPart |-> StripSurroundingQuotes(m.rest),
             lineOriented |-> FALSE]

\* Variant: the key token is split on its last ! instead of its first.
ParseKeyAndType_LastBang(keyPart) ==
    LET ks == {k \in 1..Len(keyPart) : keyPart[k] = BANG}
        idx == IF ks = {} THEN -1 ELSE (CHOOSE k \in ks : \A j \in ks : j <= k) - 1
    IN IF idx = -1
       THEN [key |-> keyPart, typeAnnotation |-> NoAnnotation]
       ELSE [key |-> Slice(keyPart, 0, idx),
             typeAnnotation |-> Annotation(SliceFrom(keyPart, idx + 1))]

ParseKeyAndType(keyPart) ==
    LET idx == IndexOf(keyPart, BANG)
    IN IF idx = -1
       THEN [key |-> keyPart, typeAnnotation |-> NoAnnotation]
       ELSE [key |-> Slice(keyPart, 0, idx),
             typeAnnotation |-> Annotation(SliceFrom(keyPart, idx + 1))]

(***************************************************************************)
(* Inline forms, dedent.                                                   *)
(***************************************************************************)
\* Variant: the elements are not trimmed.
ParseInlineList_Untrimmed(s) ==
    LET content == Slice(Trim(s), 1, -1)
    IN IF Trim(content) = <<>> THEN <<>>
       ELSE LET parts == Split(content, COMMA)
            IN [n \in 1..Len(parts) |-> Scalar(parts[n])]

ParseInlineList(s) ==
    LET content == Slice(Trim(s), 1, -1)
    IN IF Trim(content) = <<>> THEN <<>>
       ELSE LET parts == Split(content, COMMA)
            IN [n \in 1..Len(parts) |-> Scalar(Trim(parts[n]))]

RECURSIVE InlineBlockLoop(_, _)
InlineBlockLoop(parts, es) ==
    IF parts = <<>> THEN es
    ELSE LET trimmed == Trim(Head(parts))
         IN IF trimmed = <<>> THEN InlineBlockLoop(Tail(parts), es)
            ELSE LET kv == SplitKeyValue(trimmed)
                     kt == ParseKeyAndType(kv.keyPart)
                 IN InlineBlockLoop(Tail(parts), BlockSet(es, kt.key, Scalar(kv.valPart)))

ParseInlineBlock(s) ==
    LET content == Trim(Slice(Trim(s), 1, -1))
    IN IF content = <<>> THEN BlockOf(<<>>)
       ELSE BlockOf(InlineBlockLoop(Split(content, COMMA), <<>>))

\* parseInt(s, 10): leading white space, an optional sign, then the longest
\* run of decimal digits; NaN when that run is empty.
ParseInt(s) ==
    LET t == TrimStart(s)
        neg == t # <<>> /\ Head(t) = "-"
        signed == t # <<>> /\ Head(t) \in {"-", "+"}
        body == IF signed THEN Tail(t) ELSE t
        d == RunInside(body, Digits)
        mag == ToNat(SubSeq(body, 1, d))
    IN [nan |-> d = 0, val |-> IF neg THEN 0 - mag ELSE mag]

\* Variant: a line shorter than the amount is cut to the empty line.
DedentLine_Truncating(line, amount) == SliceFrom(line, amount)

DedentLine(line, amount) == IF Len(line) >= amount THEN SliceFrom(line, amount) ELSE line

Dedent(text, amount) ==
    LET ls == Split(text, LF)
    IN Join([n \in 1..Len(ls) |-> DedentLine(ls[n], amount)], <<LF>>)

(***************************************************************************)
(* Structural parsers.  Each returns the value and the index of the next   *)
(* unconsumed line; each loop is a recursive operator over one iteration.  *)
(***************************************************************************)
\* One pass through the body of the loop of #parseMultiline at line index k.
MultilineIter(ls, k, content) ==
    IF LineAt(ls, k) = <<>> THEN [exit |-> TRUE, i |-> k, content |-> content]
    ELSE IF Trim(LineAt(ls, k)) = Fence THEN [exit |-> TRUE, i |-> k + 1, content |-> content]
    ELSE [exit |-> FALSE, i |-> k + 1, content |-> Append(content, LineAt(ls, k))]

RECURSIVE MultilineLoop(_, _, _)
RECURSIVE MultilineNext(_, _)

\* The loop after one pass with outcome r: leave it or go round again.
MultilineNext(ls, r) ==
    IF r.exit THEN [i |-> r.i, content |-> r.content]
    ELSE MultilineLoop(ls, r.i, r.content)

MultilineLoop(ls, k, content) ==
    IF k >= Len(ls) THEN [i |-> k, content |-> content]
    ELSE MultilineNext(ls, MultilineIter(ls, k, content))

\* The dedenting step of #parseMultiline.
DedentByAnnotation(text, typeAnnotation) ==
    IF typeAnnotation.some /\ typeAnnotation.text # <<>> /\ ~ParseInt(typeAnnotation.text).nan
    THEN Dedent(text, ParseInt(typeAnnotation.text).val)
    ELSE text

\* The result of #parseMultiline from the outcome r of its loop.
MultilineResult(r, typeAnnotation) ==
    [value |-> Scalar(DedentByAnnotation(Join(r.content, <<LF>>), typeAnnotation)),
     nextIndex |-> r.i]

\* Variant: the returned index steps over one more line than the loop consumed.
ParseMultiline_PastEnd(ls, startIndex, typeAnnotation) ==
    [value |-> MultilineResult(MultilineLoop(ls, startIndex, <<>>), typeAnnotation).value,
     nextIndex |-> MultilineLoop(ls, startIndex, <<>>).i + 1]

ParseMultiline(ls, startIndex, typeAnnotation) ==
    MultilineResult(MultilineLoop(ls, startIndex, <<>>), typeAnnotation)

RECURSIVE ParseLine(_, _)
RECURSIVE ParseValue(_, _, _, _)
RECURSIVE ParseBlock(_, _)
RECURSIVE BlockLoop(_, _, _)
RECURSIVE BlockNext(_, _)
RECURSIVE BlockIter(_, _, _)
RECURSIVE ParseList(_, _)
RECURSIVE ListLoop(_, _, _)
RECURSIVE ListNext(_, _)
RECURSIVE ListIter(_, _, _)

\* block[node.key] = node.value; i = nextIndex, for the result r of #parseLine.
BlockPut(es, r) ==
    [exit |-> FALSE, i |-> r.nextIndex, entries |-> BlockSet(es, r.node.key, r.node.value)]

\* One pass through the body of the loop of #parseBlock at line index k.
BlockIter(ls, k, es) ==
    IF LineAt(ls, k) = <<>> THEN [exit |-> TRUE, i |-> k, entries |-> es]
    ELSE IF Trim(LineAt(ls, k)) = <<RBRACE>> THEN [exit |-> TRUE, i |-> k + 1, entries |-> es]
    ELSE IF Trim(LineAt(ls, k)) = <<>> \/ StartsWith(Trim(LineAt(ls, k)), <<HASH>>)
    THEN [exit |-> FALSE, i |-> k + 1, entries |-> es]
    ELSE BlockPut(es, ParseLine(ls, k))

\* The loop after one pass with outcome r: leave it or go round again.
BlockNext(ls, r) ==
    IF r.exit THEN [i |-> r.i, entries |-> r.entries]
    ELSE BlockLoop(ls, r.i, r.entries)

BlockLoop(ls, k, es) ==
    IF k >= Len(ls) THEN [i |-> k, entries |-> es]
    ELSE BlockNext(ls, BlockIter(ls, k, es))

\* The result of #parseBlock from the outcome r of its loop.
BlockResult(r) == [value |-> BlockOf(r.entries), nextIndex |-> r.i]

ParseBlock(ls, startIndex) == BlockResult(BlockLoop(ls, startIndex, <<>>))

\* list.push(value); i = nextIndex, for the result r of #parseBlock.
ListPut(xs, r) == [exit |-> FALSE, i |-> r.nextIndex, items |-> Append(xs, r.value)]

\* One pass through the body of the loop of #parseList at line index k.
ListIter(ls, k, xs) ==
    IF LineAt(ls, k) = <<>> THEN [exit |-> TRUE, i |-> k, items |-> xs]
    ELSE IF Trim(LineAt(ls, k)) = <<RBRACKET>> THEN [exit |-> TRUE, i |-> k + 1, items |-> xs]
    ELSE IF Trim(LineAt(ls, k)) = <<>> \/ StartsWith(Trim(LineAt(ls, k)), <<HASH>>)
    THEN [exit |-> FALSE, i |-> k + 1, items |-> xs]
    ELSE IF /\ StartsWith(Trim(LineAt(ls, k)), <<LBRACKET>>)
            /\ EndsWith(Trim(LineAt(ls, k)), <<RBRACKET>>)
    THEN [exit |-> FALSE, i |-> k + 1,
          items |-> Append(xs, ListOf(ParseInlineList(Trim(LineAt(ls, k)))))]
    ELSE IF Trim(LineAt(ls, k)) = <<LBRACE>>
    THEN ListPut(xs, ParseBlock(ls, k + 1))
    ELSE [exit |-> FALSE, i |-> k + 1, items |-> Append(xs, Scalar(Trim(LineAt(ls, k))))]

\* The loop after one pass with outcome r: leave it or go round again.
ListNext(ls, r) ==
    IF r.exit THEN [i |-> r.i, items |-> r.items]
    ELSE ListLoop(ls, r.i, r.items)

ListLoop(ls, k, xs) ==
    IF k >= Len(ls) THEN [i |-> k, items |-> xs]
    ELSE ListNext(ls, ListIter(ls, k, xs))

\* The result of #parseList from the outcome r of its loop.
ListResult(r) == [value |-> ListOf(r.items), nextIndex |-> r.i]

ParseList(ls, startIndex) == ListResult(ListLoop(ls, startIndex, <<>>))

\* Variant: the inline-list guard only asks for the opening bracket and is tested first.
ParseValue_InlineListFirst(ls, startIndex, valPart, typeAnnotation) ==
    IF StartsWith(valPart, <<LBRACKET>>)
    THEN [value |-> ListOf(ParseInlineList(valPart)), nextIndex |-> startIndex + 1]
    ELSE IF StartsWith(valPart, Fence) THEN ParseMultiline(ls, startIndex + 1, typeAnnotation)
    ELSE IF valPart = <<LBRACE>> THEN ParseBlock(ls, startIndex + 1)
    ELSE IF valPart = <<LBRACKET>> THEN ParseList(ls, startIndex + 1)
    ELSE IF StartsWith(valPart, <<LBRACE>>) /\ Includes(valPart, <<RBRACE>>)
    THEN [value |-> ParseInlineBlock(valPart), nextIndex |-> startIndex + 1]
    ELSE [value |-> Scalar(valPart), nextIndex |-> startIndex + 1]

ParseValue(ls, startIndex, valPart, typeAnnotation) ==
    IF StartsWith(valPart, Fence) THEN ParseMultiline(ls, startIndex + 1, typeAnnotation)
    ELSE IF valPart = <<LBRACE>> THEN ParseBlock(ls, startIndex + 1)
    ELSE IF valPart = <<LBRACKET>> THEN ParseList(ls, startIndex + 1)
    ELSE IF StartsWith(valPart, <<LBRACKET>>) /\ EndsWith(valPart, <<RBRACKET>>)
    THEN [value |-> ListOf(ParseInlineList(valPart)), nextIndex |-> startIndex + 1]
    ELSE IF StartsWith(valPart, <<LBRACE>>) /\ Includes(valPart, <<RBRACE>>)
    THEN [value |-> ParseInlineBlock(valPart), nextIndex |-> startIndex + 1]
    ELSE [value |-> Scalar(valPart), nextIndex |-> startIndex + 1]

\* The !quoted branch of #parseLine.
QuotedValue(valPart) ==
    IF ~StartsWith(valPart, <<QUOTE>>) \/ ~EndsWith(valPart, <<QUOTE>>)
    THEN <<QUOTE>> \o valPart \o <<QUOTE>>
    ELSE valPart

\* The node #parseLine returns from the result r of #parseValue.
LineResult(kt, r) ==
    [node |-> MkNode(kt.key, kt.typeAnnotation, r.value), nextIndex |-> r.nextIndex]

\* #parseLine once the key part is split into kt = [key, typeAnnotation].
ParseTyped(ls, startIndex, valPart, kt) ==
    IF kt.typeAnnotation = Annotation(QuotedWord)
    THEN [node |-> MkNode(kt.key, Annotation(StringWord), Scalar(QuotedValue(valPart))),
          nextIndex |-> startIndex + 1]
    ELSE LineResult(kt, ParseValue(ls, startIndex, valPart, kt.typeAnnotation))

\* #parseLine once the line is split into kv = [keyPart, valPart].
ParseSplit(ls, startIndex, kv) ==
    ParseTyped(ls, startIndex, kv.valPart, ParseKeyAndType(kv.keyPart))

ParseLine(ls, startIndex) == ParseSplit(ls, startIndex, SplitKeyValue(LineAt(ls, startIndex)))

(***************************************************************************)
(* Directives.                                                             *)
(***************************************************************************)
\* The text after the directive token, as the two directive parsers compute it.
\* Variant: the second trim of the !use argument is forgotten.
UseContent_Untrimmed(line) == SliceFrom(Trim(line), 4)

UseContent(line) == Trim(SliceFrom(Trim(line), 4))

LintContent(line) == Trim(SliceFrom(Trim(line), 5))

UseAccepted(line) == StartsWith(UseContent(line), <<LBRACKET>>)

LintAccepted(line) == LintContent(line) = <<LBRACE>>

\* namespaces: the elements of the inline list xs, as strings.
Namespaces(xs) == UseOf([n \in 1..Len(xs) |-> xs[n].text])

ParseUseDirective(line) ==
    MkNode(UseKey, Annotation(DirectiveWord), Namespaces(ParseInlineList(UseContent(line))))

\* The node #parseLintDirective returns from the result r of #parseBlock.
LintResult(r) ==
    [node |-> MkNode(LintKey, Annotation(DirectiveWord), r.value), nextIndex |-> r.nextIndex]

\* Variant: the block of the directive is parsed from the directive line itself.
ParseLintDirective_FromHeader(ls, startIndex) == LintResult(ParseBlock(ls, startIndex))

ParseLintDirective(ls, startIndex) == LintResult(ParseBlock(ls, startIndex + 1))

(***************************************************************************)
(* Inputs: texts of at most MaxLines lines taken from a pool of lines.     *)
(***************************************************************************)
EmptyLine == <<>>
BlankLine == <<SP, SP>>
CommentLine == <<HASH, "c">>
UseLine == UseToken \o <<SP, LBRACKET, "n", COMMA, SP, "m", RBRACKET>>
BadUseLine == UseToken \o <<SP, "n">>
LintLine == LintToken \o <<SP, LBRACE>>
BadLintLine == LintToken \o <<SP, "x">>
ScalarLine == <<"a", SP, "x">>
TypedLine == <<"b", BANG, "t", BANG, "u", SP, "y">>
EmptyTypeLine == <<"c", BANG, SP, "z">>
OpenBlockLine == <<"s", SP, LBRACE>>
CloseBlockLine == <<RBRACE>>
OpenListLine == <<"l", SP, LBRACKET>>
CloseListLine == <<RBRACKET>>
OpenFenceLine == <<"m", SP>> \o Fence
CloseFenceLine == Fence
DedentFenceLine == <<"d", BANG, "1", SP>> \o Fence
QuotedLine == <<"q", BANG>> \o QuotedWord \o <<SP, "v">>
IndentedLine == <<SP, SP, "h", SP, "v">>
IndentedColonLine == <<SP, SP, "t", COLON>>
DigitKeyLine == <<"1", SP, "y">>

LoQuotedHashLine == <<"k", COLON, SP, QUOTE, "a", SP, HASH, SP, "b", QUOTE>>
LoHashLine == <<"k", COLON, SP, "a", SP, HASH, SP, "b">>
LoQuotedLine == <<"g", COLON, SP, QUOTE, "x", QUOTE>>
TradHashLine == <<"n", SP, "J", SP, HASH, SP, "c">>
TradQuotedLine == <<"a", SP, QUOTE, "x", QUOTE>>
TwoQuotesLine == <<"e", SP, QUOTE, QUOTE, "x", QUOTE, QUOTE>>
LoneQuoteLine == <<"f", SP, QUOTE>>
QuotedKey == <<"q", BANG>> \o QuotedWord
QuotedBareLine == QuotedKey
QuotedWrappedLine == QuotedKey \o <<SP, QUOTE, QUOTE, "v", QUOTE, QUOTE>>
QuotedLoneQuoteLine == QuotedKey \o <<SP, QUOTE>>
QuotedBraceLine == QuotedKey \o <<SP, LBRACE>>
QuotedBracketLine == QuotedKey \o <<SP, LBRACKET>>
QuotedFenceLine == QuotedKey \o <<SP>> \o Fence
TightListLine == <<"l", SP, LBRACKET, "r", COMMA, "g", RBRACKET>>
LooseListLine == <<"l", SP, LBRACKET, SP, "r", SP, COMMA, SP, "g", SP, RBRACKET>>
EmptyListLine == <<"l", SP, LBRACKET, RBRACKET>>
BlankListLine == <<"l", SP, LBRACKET, SP, SP, RBRACKET>>
InlineBlockLine == <<"p", SP, LBRACE, "a", SP, "1", COMMA, SP, "b", BANG, "t", SP, "2", RBRACE>>
DupInlineBlockLine == <<"p", SP, LBRACE, "a", SP, "1", COMMA, "a", SP, LBRACKET, "2", RBRACKET, RBRACE>>
EmptyInlineBlockLine == <<"p", SP, LBRACE, RBRACE>>
TrailingInlineBlockLine == <<"p", SP, LBRACE, "a", SP, "1", RBRACE, SP, "x">>
Dedent2FenceLine == <<"d", BANG, "2", SP>> \o Fence
DigitsThenTextFenceLine == <<"d", BANG, "1", "x", SP>> \o Fence
SignedFenceLine == <<"d", BANG, "-", "1", SP>> \o Fence
WordFenceLine == <<"d", BANG, "t", SP>> \o Fence
ShortBodyLine == <<"x">>
LongBodyLine == <<SP, "y", "z">>
UnclosedUseLine == UseToken \o <<SP, LBRACKET, "n", COMMA, SP, "m">>
ItemListLine == <<SP, LBRACKET, "r", COMMA, SP, "g", RBRACKET>>
ItemBlockLine == <<SP, LBRACE>>
ItemScalarLine == <<SP, "x", BANG, "t", SP, QUOTE, "y", QUOTE>>

TrailBraceLine == <<"s", SP, LBRACE, SP, SP>>
TrailBracketLine == <<"l", SP, LBRACKET, SP, SP>>
TrailListLine == <<"l", SP, LBRACKET, "r", COMMA, SP, "g", RBRACKET, SP, SP>>
ColonTrailBraceLine == <<"s", COLON, SP, LBRACE, SP, SP>>
ColonTrailBracketLine == <<"l", COLON, SP, LBRACKET, SP, SP>>
ColonTrailListLine == <<"l", COLON, SP, LBRACKET, "r", COMMA, SP, "g", RBRACKET, SP, SP>>

\* Lines that exercise the driver and the structural parsers.
CorePool ==
    {EmptyLine, BlankLine, CommentLine, UseLine, BadUseLine, LintLine, BadLintLine,
     ScalarLine, OpenBlockLine, CloseBlockLine, OpenListLine, CloseListLine,
     OpenFenceLine, CloseFenceLine, DigitKeyLine}

\* Lines that exercise the key/value splitter and the type annotation.
HeaderPool ==
    {EmptyLine, BlankLine, CommentLine, UseLine, LintLine, ScalarLine, TypedLine,
     EmptyTypeLine,
     QuotedLine, DedentFenceLine, IndentedLine, IndentedColonLine,
     OpenBlockLine, CloseBlockLine}

\* Lines of the texts whose line separator is carriage return + line feed.
CrlfPool ==
    {EmptyLine, CommentLine, ScalarLine, TypedLine, OpenBlockLine, CloseBlockLine}

\* One-line headers that exercise comment and quote handling, the quoted
\* annotation and the inline forms.
ValuePool ==
    {EmptyLine, CommentLine, UseLine, LintLine,
     LoQuotedHashLine, LoHashLine, LoQuotedLine, TradHashLine, TradQuotedLine,
     TwoQuotesLine, LoneQuoteLine,
     QuotedLine, QuotedBareLine, QuotedWrappedLine, QuotedLoneQuoteLine,
     QuotedBraceLine, QuotedBracketLine, QuotedFenceLine,
     TightListLine, LooseListLine, EmptyListLine, BlankListLine,
     InlineBlockLine, DupInlineBlockLine, EmptyInlineBlockLine, TrailingInlineBlockLine}

\* Lines that exercise multiline text and its dedenting.
MultilinePool ==
    {EmptyLine, CommentLine, UseLine, LintLine,
     OpenFenceLine, DedentFenceLine, Dedent2FenceLine, DigitsThenTextFenceLine,
     SignedFenceLine, WordFenceLine, ShortBodyLine, LongBodyLine, CloseFenceLine}

\* Lines that exercise the multi-line list and the callers of the inline list.
ListPool ==
    {EmptyLine, BlankLine, CommentLine, UseLine, UnclosedUseLine, LintLine,
     OpenListLine, CloseListLine, ItemListLine, ItemBlockLine, CloseBlockLine,
     ItemScalarLine, ScalarLine, TightListLine}

\* The texts of 1..MaxLines lines of the pool, joined with the separator eol.
TextsOver(pool, eol) ==
    {Join(ls, eol) : ls \in UNION {[1..n -> pool] : n \in 1..MaxLines}}

(***************************************************************************)
(* The document driver: one action per branch of the loop of parseDocument.*)
(***************************************************************************)
\* The texts of 1..MaxHeaders lines of the pool, joined with line feeds.
ShortTextsOver(pool) ==
    {Join(ls, <<LF>>) : ls \in UNION {[1..n -> pool] : n \in 1..MaxHeaders}}

AtLine == pc = "run" /\ i < Len(lines)

Current == LineAt(lines, i)

\* Variant: comment lines are not skipped.
IsSkipped_BlankOnly(line) == Trim(line) = <<>>

IsSkipped(line) == Trim(line) = <<>> \/ StartsWith(Trim(line), <<HASH>>)

IsUse(line) == StartsWith(Trim(line), UseToken)

IsLint(line) == StartsWith(Trim(line), LintToken)

\* nodes.push(node); i = nextIndex, for a result r = [node, nextIndex].
Push(r) ==
    /\ nodes' = Append(nodes, r.node)
    /\ spans' = Append(spans, [start |-> i, next |-> r.nextIndex])
    /\ i' = r.nextIndex

InitOver(texts) ==
    /\ input \in texts
    /\ lines = Split(input, LF)
    /\ i = 0
    /\ nodes = <<>>
    /\ spans = <<>>
    /\ pc = "run"
    /\ previous = NoCall

Init == InitOver(TextsOver(CorePool, <<LF>>))

InitHeaders == InitOver(TextsOver(HeaderPool, <<LF>>) \cup TextsOver(CrlfPool, <<CR, LF>>))

InitValues == InitOver(ShortTextsOver(ValuePool))

InitMultiline == InitOver(TextsOver(MultilinePool, <<LF>>))

InitLists == InitOver(TextsOver(ListPool, <<LF>>))

\* The characters of the enumerated value remainders.
RemainderAlphabet == {BACKTICK, LBRACE, RBRACE, LBRACKET, RBRACKET, COMMA, SP, "a"}

\* One header line for every remainder of 1..MaxRemainder characters, and one
\* line for each of the other branches of the driver.
RemainderTexts ==
    {EmptyLine, CommentLine, UseLine, LintLine}
    \cup {<<"k", SP>> \o r : r \in UNION {[1..n -> RemainderAlphabet] : n \in 1..MaxRemainder}}

\* Headers whose remainder ends in white space, and lines to follow them.
TrailingPool ==
    {EmptyLine, CommentLine, UseLine, LintLine, ScalarLine, CloseBlockLine, CloseListLine,
     TrailBraceLine, TrailBracketLine, TrailListLine,
     ColonTrailBraceLine, ColonTrailBracketLine, ColonTrailListLine}

InitTrailing == InitOver(TextsOver(TrailingPool, <<LF>>))

InitRemainders == InitOver(RemainderTexts)

\* Lines that may stand behind an opening fence.
FencePool ==
    {EmptyLine, CommentLine, UseLine, BadUseLine, LintLine, ScalarLine,
     CloseBlockLine, CloseListLine, CloseFenceLine}

\* An opening fence, at the top level or as the first line of a block,
\* followed by 1..MaxLines lines of the fence pool.
FenceTexts ==
    {Join(h \o ls, <<LF>>) :
        h \in {<<OpenFenceLine>>, <<OpenBlockLine, OpenFenceLine>>},
        ls \in UNION {[1..n -> FencePool] : n \in 1..MaxLines}}

InitFences == InitOver(FenceTexts)

SkipEmptyLine ==
    /\ AtLine
    /\ Current = <<>>
    /\ i' = i + 1
    /\ UNCHANGED <<previous, input, lines, nodes, spans, pc>>

SkipBlankOrComment ==
    /\ AtLine
    /\ Current # <<>>
    /\ IsSkipped(Current)
    /\ i' = i + 1
    /\ UNCHANGED <<previous, input, lines, nodes, spans, pc>>

UseDirective ==
    /\ AtLine
    /\ Current # <<>>
    /\ ~IsSkipped(Current)
    /\ IsUse(Current)
    /\ IF UseAccepted(Trim(Current))
       THEN /\ Push([node |-> ParseUseDirective(Trim(Current)), nextIndex |-> i + 1])
            /\ UNCHANGED <<previous, input, lines, pc>>
       ELSE /\ pc' = "error"
            /\ UNCHANGED <<previous, input, lines, i, nodes, spans>>

LintDirective ==
    /\ AtLine
    /\ Current # <<>>
    /\ ~IsSkipped(Current)
    /\ ~IsUse(Current)
    /\ IsLint(Current)
    /\ IF LintAccepted(Current)
       THEN /\ Push(ParseLintDirective(lines, i))
            /\ UNCHANGED <<previous, input, lines, pc>>
       ELSE /\ pc' = "error"
            /\ UNCHANGED <<previous, input, lines, i, nodes, spans>>

GenericLine ==
    /\ AtLine
    /\ Current # <<>>
    /\ ~IsSkipped(Current)
    /\ ~IsUse(Current)
    /\ ~IsLint(Current)
    /\ Push(ParseLine(lines, i))
    /\ UNCHANGED <<previous, input, lines, pc>>

Return ==
    /\ pc = "run"
    /\ i >= Len(lines)
    /\ pc' = "done"
    /\ UNCHANGED <<previous, input, lines, i, nodes, spans>>

Next ==
    \/ SkipEmptyLine
    \/ SkipBlankOrComment
    \/ UseDirective
    \/ LintDirective
    \/ GenericLine
    \/ Return

Spec == Init /\ [][Next]_vars

SpecHeaders == InitHeaders /\ [][Next]_vars

SpecValues == InitValues /\ [][Next]_vars

SpecMultiline == InitMultiline /\ [][Next]_vars

SpecLists == InitLists /\ [][Next]_vars

SpecTrailing == InitTrailing /\ [][Next]_vars

SpecRemainders == InitRemainders /\ [][Next]_vars

SpecFences == InitFences /\ [][Next]_vars

\* The run of parseDocument to its end, as one function of the text.
RECURSIVE DocLoop(_, _, _)
RECURSIVE DocNext(_, _, _)

\* The loop after a node was parsed with result r.
DocNext(ls, ns, r) == DocLoop(ls, r.nextIndex, Append(ns, r.node))

DocLoop(ls, k, ns) ==
    IF k >= Len(ls) THEN [raised |-> FALSE, nodes |-> ns]
    ELSE IF LineAt(ls, k) = <<>> \/ IsSkipped(LineAt(ls, k)) THEN DocLoop(ls, k + 1, ns)
    ELSE IF IsUse(LineAt(ls, k))
    THEN IF UseAccepted(Trim(LineAt(ls, k)))
         THEN DocNext(ls, ns, [node |-> ParseUseDirective(Trim(LineAt(ls, k))),
                               nextIndex |-> k + 1])
         ELSE [raised |-> TRUE, nodes |-> ns]
    ELSE IF IsLint(LineAt(ls, k))
    THEN IF LintAccepted(LineAt(ls, k))
         THEN DocNext(ls, ns, ParseLintDirective(ls, k))
         ELSE [raised |-> TRUE, nodes |-> ns]
    ELSE DocNext(ls, ns, ParseLine(ls, k))

ParseDocument(text) == DocLoop(Split(text, LF), 0, <<>>)

(***************************************************************************)
(* The instance-cursor parser, class UpParser.  Its line counter is a      *)
(* field of the instance; here every sub-parser takes it as k and returns  *)
(* it as lineNum.  A loop whose pass changes nothing runs forever: its     *)
(* outcome carries spin, and so does every sub-parser that waits for it.   *)
(***************************************************************************)
TableWord == <<"t", "a", "b", "l", "e">>
ColumnsWord == <<"c", "o", "l", "u", "m", "n", "s">>
RowsWord == <<"r", "o", "w", "s">>

\* A field of the table that was never assigned, against an assigned one.
Unset == [set |-> FALSE, items |-> <<>>]
SetTo(xs) == [set |-> TRUE, items |-> xs]

TableOf(c, r) == [kind |-> "table", columns |-> c, rows |-> r]

MkUpNode(k, t, v) == [key |-> k, type |-> t, value |-> v]

\* String.prototype.substring(a, b): arguments clamped to the string, swapped when a > b.
Clamp(n, len) == Max(0, Min(n, len))

Substring(s, a, b) ==
    SubSeq(s, Min(Clamp(a, Len(s)), Clamp(b, Len(s))) + 1,
              Max(Clamp(a, Len(s)), Clamp(b, Len(s))))

SubstringFrom(s, a) == Substring(s, a, Len(s))

\* String.prototype.lastIndexOf for a one-character needle: 0-based, -1 when absent.
LastIndexOf(s, c) ==
    IF \E k \in 1..Len(s) : s[k] = c
    THEN (CHOOSE k \in 1..Len(s) : s[k] = c /\ \A j \in (k + 1)..Len(s) : s[j] # c) - 1
    ELSE -1

\* String.prototype.search(/\s/): 0-based index of the first white space, -1 when absent.
SearchSpace(s) ==
    IF \E k \in 1..Len(s) : s[k] \in WhiteSpace
    THEN (CHOOSE k \in 1..Len(s) : s[k] \in WhiteSpace /\ \A j \in 1..(k - 1) : s[j] \notin WhiteSpace) - 1
    ELSE -1

\* input.split(/\r?\n/): a carriage return in front of a line feed belongs to the separator.
UpSplit(text) ==
    LET ps == Split(text, LF)
    IN [n \in 1..Len(ps) |->
           IF n < Len(ps) /\ EndsWith(ps[n], <<CR>>)
           THEN SubSeq(ps[n], 1, Len(ps[n]) - 1)
           ELSE ps[n]]

\* The key, type and value part that #parseLine takes from a line.
UpKeyTypeValue(line) ==
    LET trimmed == Trim(line)
        firstSpace == SearchSpace(trimmed)
        keyPart == IF firstSpace = -1 THEN trimmed ELSE Substring(trimmed, 0, firstSpace)
        valuePart == IF firstSpace = -1 THEN <<>> ELSE Trim(SubstringFrom(trimmed, firstSpace))
        bangIndex == IndexOf(keyPart, BANG)
    IN [key |-> IF bangIndex # -1 THEN Substring(keyPart, 0, bangIndex) ELSE keyPart,
        type |-> IF bangIndex # -1 THEN SubstringFrom(keyPart, bangIndex + 1) ELSE <<>>,
        valuePart |-> valuePart]

UpParseInlineList(line) ==
    LET content == Trim(Substring(line, 1, LastIndexOf(line, RBRACKET)))
    IN IF content = <<>> THEN <<>>
       ELSE LET parts == Split(content, COMMA)
            IN [n \in 1..Len(parts) |-> Scalar(Trim(parts[n]))]

UpDedentLine(line, count) == IF Len(line) >= count THEN SubstringFrom(line, count) ELSE line

UpDedent(text, count) ==
    LET ls == Split(text, LF)
    IN Join([n \in 1..Len(ls) |-> UpDedentLine(ls[n], count)], <<LF>>)

\* /^\d+$/.test(s)
IsDigitString(s) == s # <<>> /\ \A k \in 1..Len(s) : s[k] \in Digits

\* One pass through the body of the loop of UpParser.#parseMultiline at line k.
UpMultilineIter(ls, k, content) ==
    IF Trim(LineAt(ls, k)) = Fence
    THEN [exit |-> TRUE, spin |-> FALSE, lineNum |-> k + 1, content |-> content]
    ELSE [exit |-> FALSE, spin |-> FALSE, lineNum |-> k + 1,
          content |-> Append(content, LineAt(ls, k))]

RECURSIVE UpMultilineLoop(_, _, _)
RECURSIVE UpMultilineNext(_, _)

UpMultilineNext(ls, r) ==
    IF r.exit THEN [lineNum |-> r.lineNum, content |-> r.content]
    ELSE UpMultilineLoop(ls, r.lineNum, r.content)

UpMultilineLoop(ls, k, content) ==
    IF k >= Len(ls) THEN [lineNum |-> k, content |-> content]
    ELSE UpMultilineNext(ls, UpMultilineIter(ls, k, content))

\* The text UpParser.#parseMultiline returns for the joined text and the type.
UpMultilineText(text, typeAnnotation) ==
    IF typeAnnotation # <<>> /\ IsDigitString(typeAnnotation)
    THEN UpDedent(text, ToNat(typeAnnotation))
    ELSE text

UpMultilineResult(r, typeAnnotation) ==
    [value |-> Scalar(UpMultilineText(Join(r.content, <<LF>>), typeAnnotation)),
     lineNum |-> r.lineNum, spin |-> FALSE]

UpParseMultiline(ls, k, typeAnnotation) ==
    UpMultilineResult(UpMultilineLoop(ls, k, <<>>), typeAnnotation)

\* UpParser.#parseBlockOfLists: one pass at line k; a line that is neither
\* }, blank, comment nor a row leaves the counter where it is.
UpRowsIter(ls, k, rows) ==
    IF Trim(LineAt(ls, k)) = <<RBRACE>>
    THEN [exit |-> TRUE, spin |-> FALSE, lineNum |-> k + 1, rows |-> rows]
    ELSE IF Trim(LineAt(ls, k)) = <<>> \/ StartsWith(Trim(LineAt(ls, k)), <<HASH>>)
    THEN [exit |-> FALSE, spin |-> FALSE, lineNum |-> k + 1, rows |-> rows]
    ELSE IF StartsWith(Trim(LineAt(ls, k)), <<LBRACKET>>)
    THEN [exit |-> FALSE, spin |-> FALSE, lineNum |-> k + 1,
          rows |-> Append(rows, UpParseInlineList(Trim(LineAt(ls, k))))]
    ELSE [exit |-> FALSE, spin |-> TRUE, lineNum |-> k, rows |-> rows]

RECURSIVE UpRowsLoop(_, _, _)
RECURSIVE UpRowsNext(_, _)

UpRowsNext(ls, r) ==
    IF r.exit \/ r.spin THEN [value |-> r.rows, lineNum |-> r.lineNum, spin |-> r.spin]
    ELSE UpRowsLoop(ls, r.lineNum, r.rows)

UpRowsLoop(ls, k, rows) ==
    IF k >= Len(ls) THEN [value |-> rows, lineNum |-> k, spin |-> FALSE]
    ELSE UpRowsNext(ls, UpRowsIter(ls, k, rows))

UpParseBlockOfLists(ls, k) == UpRowsLoop(ls, k, <<>>)

\* table.rows = this.#parseBlockOfLists(), for the result r of that call.
UpTableRows(t, r) ==
    [exit |-> FALSE, spin |-> r.spin, lineNum |-> r.lineNum,
     table |-> IF r.spin THEN t ELSE [t EXCEPT !.rows = SetTo(r.value)]]

\* UpParser.#parseTable: one pass at line k; a line that is neither }, blank,
\* comment, columns nor rows leaves the counter where it is.
UpTableIter(ls, k, t) ==
    IF Trim(LineAt(ls, k)) = <<RBRACE>>
    THEN [exit |-> TRUE, spin |-> FALSE, lineNum |-> k + 1, table |-> t]
    ELSE IF Trim(LineAt(ls, k)) = <<>> \/ StartsWith(Trim(LineAt(ls, k)), <<HASH>>)
    THEN [exit |-> FALSE, spin |-> FALSE, lineNum |-> k + 1, table |-> t]
    ELSE IF StartsWith(Trim(LineAt(ls, k)), ColumnsWord)
    THEN [exit |-> FALSE, spin |-> FALSE, lineNum |-> k + 1,
          table |-> [t EXCEPT !.columns =
                        SetTo(UpParseInlineList(Trim(SubstringFrom(Trim(LineAt(ls, k)), 7))))]]
    ELSE IF StartsWith(Trim(LineAt(ls, k)), RowsWord)
    THEN UpTableRows(t, UpParseBlockOfLists(ls, k + 1))
    ELSE [exit |-> FALSE, spin |-> TRUE, lineNum |-> k, table |-> t]

RECURSIVE UpTableLoop(_, _, _)
RECURSIVE UpTableNext(_, _)

UpTableNext(ls, r) ==
    IF r.exit \/ r.spin THEN [value |-> r.table, lineNum |-> r.lineNum, spin |-> r.spin]
    ELSE UpTableLoop(ls, r.lineNum, r.table)

UpTableLoop(ls, k, t) ==
    IF k >= Len(ls) THEN [value |-> t, lineNum |-> k, spin |-> FALSE]
    ELSE UpTableNext(ls, UpTableIter(ls, k, t))

UpParseTable(ls, k) == UpTableLoop(ls, k, TableOf(Unset, Unset))

RECURSIVE UpParseLine(_, _)
RECURSIVE UpParseValue(_, _, _, _)
RECURSIVE UpParseBlock(_, _)
RECURSIVE UpParseList(_, _)
RECURSIVE UpNodesLoop(_, _, _, _)
RECURSIVE UpNodesNext(_, _, _)
RECURSIVE UpNodesIter(_, _, _, _)
RECURSIVE UpListLoop(_, _, _)
RECURSIVE UpListNext(_, _)
RECURSIVE UpListIter(_, _, _)

\* if (node) nodes.push(node), for the result r of #parseLine.
UpNodesPut(ns, r) ==
    [exit |-> FALSE, spin |-> r.spin, lineNum |-> r.lineNum,
     nodes |-> IF r.spin THEN ns ELSE Append(ns, r.node)]

\* One pass through the body of the loop of UpParser.#parseNodes at line k;
\* endDelimiter is the empty string where the source passes null.
UpNodesIter(ls, k, endDelimiter, ns) ==
    IF endDelimiter # <<>> /\ Trim(LineAt(ls, k)) = endDelimiter
    THEN [exit |-> TRUE, spin |-> FALSE, lineNum |-> k + 1, nodes |-> ns]
    ELSE IF Trim(LineAt(ls, k)) = <<>> \/ StartsWith(Trim(LineAt(ls, k)), <<HASH>>)
    THEN [exit |-> FALSE, spin |-> FALSE, lineNum |-> k + 1, nodes |-> ns]
    ELSE UpNodesPut(ns, UpParseLine(ls, k))

UpNodesNext(ls, endDelimiter, r) ==
    IF r.exit \/ r.spin THEN [nodes |-> r.nodes, lineNum |-> r.lineNum, spin |-> r.spin]
    ELSE UpNodesLoop(ls, r.lineNum, endDelimiter, r.nodes)

UpNodesLoop(ls, k, endDelimiter, ns) ==
    IF k >= Len(ls) THEN [nodes |-> ns, lineNum |-> k, spin |-> FALSE]
    ELSE UpNodesNext(ls, endDelimiter, UpNodesIter(ls, k, endDelimiter, ns))

UpParseNodes(ls, k, endDelimiter) == UpNodesLoop(ls, k, endDelimiter, <<>>)

\* for (const node of nodes) block[node.key] = node.value
RECURSIVE UpBlockFill(_, _)
UpBlockFill(ns, es) ==
    IF ns = <<>> THEN es
    ELSE UpBlockFill(Tail(ns), BlockSet(es, Head(ns).key, Head(ns).value))

\* The result of UpParser.#parseBlock from the result r of #parseNodes('}').
UpBlockResult(r) ==
    [value |-> BlockOf(UpBlockFill(r.nodes, <<>>)), lineNum |-> r.lineNum, spin |-> r.spin]

UpParseBlock(ls, k) == UpBlockResult(UpParseNodes(ls, k, <<RBRACE>>))

\* list.push(this.#parseBlock()), for the result r of that call.
UpListPut(xs, r) ==
    [exit |-> FALSE, spin |-> r.spin, lineNum |-> r.lineNum,
     items |-> IF r.spin THEN xs ELSE Append(xs, r.value)]

\* One pass through the body of the loop of UpParser.#parseList at line k.
UpListIter(ls, k, xs) ==
    IF Trim(LineAt(ls, k)) = <<RBRACKET>>
    THEN [exit |-> TRUE, spin |-> FALSE, lineNum |-> k + 1, items |-> xs]
    ELSE IF Trim(LineAt(ls, k)) = <<>> \/ StartsWith(Trim(LineAt(ls, k)), <<HASH>>)
    THEN [exit |-> FALSE, spin |-> FALSE, lineNum |-> k + 1, items |-> xs]
    ELSE IF Trim(LineAt(ls, k)) = <<LBRACE>>
    THEN UpListPut(xs, UpParseBlock(ls, k + 1))
    ELSE IF StartsWith(Trim(LineAt(ls, k)), <<LBRACKET>>)
    THEN [exit |-> FALSE, spin |-> FALSE, lineNum |-> k + 1,
          items |-> Append(xs, ListOf(UpParseInlineList(Trim(LineAt(ls, k)))))]
    ELSE [exit |-> FALSE, spin |-> FALSE, lineNum |-> k + 1,
          items |-> Append(xs, Scalar(Trim(LineAt(ls, k))))]

UpListNext(ls, r) ==
    IF r.exit \/ r.spin THEN [value |-> ListOf(r.items), lineNum |-> r.lineNum, spin |-> r.spin]
    ELSE UpListLoop(ls, r.lineNum, r.items)

UpListLoop(ls, k, xs) ==
    IF k >= Len(ls) THEN [value |-> ListOf(xs), lineNum |-> k, spin |-> FALSE]
    ELSE UpListNext(ls, UpListIter(ls, k, xs))

UpParseList(ls, k) == UpListLoop(ls, k, <<>>)

\* UpParser.#parseValue, called with the line counter k behind the header line.
UpParseValue(ls, k, valuePart, type) ==
    IF StartsWith(valuePart, Fence) THEN UpParseMultiline(ls, k, type)
    ELSE IF valuePart = <<LBRACE>> THEN UpParseBlock(ls, k)
    ELSE IF valuePart = <<LBRACKET>> THEN UpParseList(ls, k)
    ELSE IF type = TableWord /\ StartsWith(valuePart, <<LBRACE>>) THEN UpParseTable(ls, k)
    ELSE [value |-> Scalar(valuePart), lineNum |-> k, spin |-> FALSE]

\* The node UpParser.#parseLine returns from the result r of #parseValue.
UpLineResult(kt, r) ==
    [node |-> MkUpNode(kt.key, kt.type, r.value), lineNum |-> r.lineNum, spin |-> r.spin]

\* UpParser.#parseLine once the line is split into kt = [key, type, valuePart].
UpParseSplit(ls, k, kt) == UpLineResult(kt, UpParseValue(ls, k + 1, kt.valuePart, kt.type))

UpParseLine(ls, k) == UpParseSplit(ls, k, UpKeyTypeValue(LineAt(ls, k)))

\* UpParser.parse on a given instance: whatever the fields hold, they are set anew.
UpParse(text) == UpParseNodes(UpSplit(text), 0, <<>>)

(***************************************************************************)
(* UpParser.parse as a state machine: the top-level loop of #parseNodes,   *)
(* one action per branch, on the instance fields lines and i.              *)
(***************************************************************************)
TableOpenLine == <<"t", BANG>> \o TableWord \o <<SP, LBRACE>>
TableInlineLine == <<"t", BANG>> \o TableWord \o <<SP, LBRACE, RBRACE>>
ColumnsLine == ColumnsWord \o <<SP, LBRACKET, "a", COMMA, SP, "b", RBRACKET>>
RowsLine == RowsWord \o <<SP, LBRACE>>
RowLine == <<LBRACKET, "1", COMMA, SP, "2", RBRACKET>>

\* Lines that exercise the loops of UpParser other than the table's.
UpPool ==
    {EmptyLine, BlankLine, CommentLine, ScalarLine, TypedLine, ShortBodyLine,
     OpenBlockLine, CloseBlockLine, OpenListLine, CloseListLine,
     OpenFenceLine, CloseFenceLine}

\* Lines that may follow a table header.
TablePool == {ColumnsLine, RowsLine, RowLine, CloseBlockLine, ScalarLine}

\* A table header followed by 1..MaxLines lines of the table pool.
TableTexts ==
    {Join(<<h>> \o ls, <<LF>>) :
        h \in {TableOpenLine, TableInlineLine},
        ls \in UNION {[1..n -> TablePool] : n \in 1..MaxLines}}

UpTexts == TextsOver(UpPool, <<LF>>) \cup TableTexts

\* Lines of the texts given to one instance in successive calls.
CallPool == {CommentLine, ScalarLine, OpenBlockLine, OpenListLine, OpenFenceLine}

CallTexts == {Join(ls, <<LF>>) : ls \in UNION {[1..n -> CallPool] : n \in 1..MaxCallLines}}

\* A constructed instance on which parse was not called yet.
InitInstance ==
    /\ input = <<>>
    /\ lines = <<>>
    /\ i = 0
    /\ nodes = <<>>
    /\ spans = <<>>
    /\ pc = "idle"
    /\ previous = NoCall

\* The state after the two assignments at the head of parse.
InitUp ==
    /\ input \in UpTexts
    /\ lines = UpSplit(input)
    /\ i = 0
    /\ nodes = <<>>
    /\ spans = <<>>
    /\ pc = "run"
    /\ previous = NoCall

\* Variant: parse does not reset the line counter.
UpCall_KeepsCounter ==
    /\ pc \in {"idle", "done"}
    /\ previous' = IF pc = "idle" THEN NoCall ELSE [some |-> TRUE, text |-> input]
    /\ input' \in CallTexts
    /\ lines' = UpSplit(input')
    /\ i' = i
    /\ nodes' = <<>>
    /\ spans' = <<>>
    /\ pc' = "run"

\* A call of parse on the instance: the head of parse, with a fresh array of nodes.
UpCall ==
    /\ pc \in {"idle", "done"}
    /\ previous' = IF pc = "idle" THEN NoCall ELSE [some |-> TRUE, text |-> input]
    /\ input' \in CallTexts
    /\ lines' = UpSplit(input')
    /\ i' = 0
    /\ nodes' = <<>>
    /\ spans' = <<>>
    /\ pc' = "run"

UpSkipLine ==
    /\ AtLine
    /\ IsSkipped(Current)
    /\ i' = i + 1
    /\ UNCHANGED <<previous, input, lines, nodes, spans, pc>>

\* nodes.push(node) for the result r of #parseLine; a call that never returns
\* leaves the loop where it is.
UpPush(r) ==
    IF r.spin
    THEN /\ pc' = "spin"
         /\ i' = r.lineNum
         /\ UNCHANGED <<nodes, spans>>
    ELSE /\ nodes' = Append(nodes, r.node)
         /\ spans' = Append(spans, [start |-> i, next |-> r.lineNum])
         /\ i' = r.lineNum
         /\ pc' = pc

UpNodeLine ==
    /\ AtLine
    /\ ~IsSkipped(Current)
    /\ UpPush(UpParseLine(lines, i))
    /\ UNCHANGED <<previous, input, lines>>

UpReturn ==
    /\ pc = "run"
    /\ i >= Len(lines)
    /\ pc' = "done"
    /\ UNCHANGED <<previous, input, lines, i, nodes, spans>>

NextUp ==
    \/ UpSkipLine
    \/ UpNodeLine
    \/ UpReturn

NextUpCalls ==
    \/ UpCall
    \/ UpSkipLine
    \/ UpNodeLine
    \/ UpReturn

SpecUp == InitUp /\ [][NextUp]_vars

SpecUpCalls == InitInstance /\ [][NextUpCalls]_vars

(***************************************************************************)
(* Properties.                                                             *)
(***************************************************************************)
\* Node n of the document came from the generic line parser.
IsGeneric(n) ==
    LET line == LineAt(lines, spans[n].start)
    IN ~IsUse(line) /\ ~IsLint(line)

\* A malformed directive line, in the words of the error-handling section.
MalformedUse(line) ==
    /\ StartsWith(Trim(line), UseToken)
    /\ ~StartsWith(Trim(SliceFrom(Trim(line), 4)), <<LBRACKET>>)

MalformedLint(line) ==
    /\ StartsWith(Trim(line), LintToken)
    /\ Trim(SliceFrom(Trim(line), 5)) # <<LBRACE>>

MalformedDirective(line) == MalformedUse(line) \/ MalformedLint(line)

IsBlankLine(line) == Trim(line) = <<>>

IsCommentLine(line) == Trim(line) # <<>> /\ Head(Trim(line)) = HASH

IsPlainHeader(line) ==
    /\ ~IsBlankLine(line)
    /\ ~IsCommentLine(line)
    /\ ~StartsWith(Trim(line), UseToken)
    /\ ~StartsWith(Trim(line), LintToken)
    /\ \A n \in 1..Len(line) : line[n] \notin {LBRACE, LBRACKET, BACKTICK}

IsPlainText(ls) ==
    \A n \in 1..Len(ls) : IsBlankLine(ls[n]) \/ IsCommentLine(ls[n]) \/ IsPlainHeader(ls[n])

\* The 0-based indices, from k on, of the plain headers of ls, in ascending order.
RECURSIVE HeaderIndices(_, _)
HeaderIndices(ls, k) ==
    IF k >= Len(ls) THEN <<>>
    ELSE (IF IsPlainHeader(LineAt(ls, k)) THEN <<k>> ELSE <<>>) \o HeaderIndices(ls, k + 1)

\* C2: for an input of scalar headers, blank lines and comment lines only, the
\* nodes built so far are exactly the headers above the current line, one
\* scalar node per header in source order, each consuming its own line; blank
\* and comment lines give no node, and the empty text gives the empty document.
C2_NodesAreTheHeaders ==
    /\ IsPlainText(lines) =>
          LET hs == HeaderIndices(SubSeq(lines, 1, i), 0)
          IN /\ Len(nodes) = Len(hs)
             /\ \A n \in 1..Len(hs) :
                   /\ spans[n] = [start |-> hs[n], next |-> hs[n] + 1]
                   /\ nodes[n].value.kind = "scalar"
    /\ (input = <<>> /\ pc = "done") => nodes = <<>>

\* C2 witness: a finished parse of two headers with a comment or blank line between them.
C2_Witness ==
    /\ pc = "done"
    /\ IsPlainText(lines)
    /\ Len(nodes) = 2
    /\ spans[1].start = 0
    /\ spans[2].start = 2

\* No line of ls holds a grave accent, so no multiline text is opened.
NoFence(ls) == \A n \in 1..Len(ls) : \A k \in 1..Len(ls[n]) : ls[n][k] # BACKTICK

\* A header line without its indentation; blank lines are left as they are.
Unindent(line) == IF Trim(line) = <<>> THEN line ELSE TrimStart(line)

\* C3: the key/value splitter gives an indented header line the same key
\* token and value remainder as the unindented line, so a finished parse
\* equals the parse of the text with every header line unindented.
C3_IndentationIgnored ==
    (pc = "done" /\ NoFence(lines)) =>
        /\ \A n \in 1..Len(lines) : SplitKeyValue(lines[n]) = SplitKeyValue(Unindent(lines[n]))
        /\ nodes = ParseDocument(Join([n \in 1..Len(lines) |-> Unindent(lines[n])], <<LF>>)).nodes

NotBlank(line) == ~IsBlankLine(line)

\* C4: blank lines, the completely empty line included, are skipped inside a
\* block and inside a list and do not end it: a finished parse of a text
\* without multiline text equals the parse of the text without its blank lines.
C4_BlankLinesSkippedInConstructs ==
    (pc = "done" /\ NoFence(lines)) =>
        nodes = ParseDocument(Join(SelectSeq(lines, NotBlank), <<LF>>)).nodes

\* The index of the first line after line s whose trimmed text is the fence,
\* or the number of lines when there is none.
ClosingFence(ls, s) ==
    LET cs == {k \in (s + 1)..(Len(ls) - 1) : Trim(LineAt(ls, k)) = Fence}
    IN IF cs = {} THEN Len(ls) ELSE CHOOSE k \in cs : \A j \in cs : k <= j

\* Node n is a top-level multiline node without type annotation.
IsPlainMultiline(n) ==
    /\ IsGeneric(n)
    /\ StartsWith(SplitKeyValue(LineAt(lines, spans[n].start)).valPart, Fence)
    /\ ~nodes[n].typeAnnotation.some

\* C5: the value of a multiline node is the line-feed join of every line
\* strictly between the opening fence line and the closing fence line (or the
\* end of input), empty lines included, and the next node starts on the line
\* after the closing fence.
C5_MultilineKeepsEveryLine ==
    \A n \in 1..Len(nodes) :
        IsPlainMultiline(n) =>
            LET s == spans[n].start
                c == ClosingFence(lines, s)
            IN /\ nodes[n].value = Scalar(Join(SubSeq(lines, s + 2, c), <<LF>>))
               /\ c < Len(lines) => spans[n].next = c + 1

\* The entries of the block body that starts at line k, one per parsed line, in source order.
RECURSIVE SourceEntries(_, _)
SourceEntries(ls, k) ==
    IF k >= Len(ls) \/ BlockIter(ls, k, <<>>).exit THEN <<>>
    ELSE (IF IsSkipped(LineAt(ls, k)) THEN <<>>
          ELSE <<[key |-> ParseLine(ls, k).node.key, value |-> ParseLine(ls, k).node.value]>>)
         \o SourceEntries(ls, BlockIter(ls, k, <<>>).i)

\* One entry per distinct key, at the place of the key's first occurrence, with its last value.
RECURSIVE FirstPlaceLastValue(_, _)
FirstPlaceLastValue(es, acc) ==
    IF es = <<>> THEN acc
    ELSE IF HasKey(acc, Head(es).key)
    THEN FirstPlaceLastValue(Tail(es),
            [n \in 1..Len(acc) |-> IF acc[n].key = Head(es).key THEN Head(es) ELSE acc[n]])
    ELSE FirstPlaceLastValue(Tail(es), Append(acc, Head(es)))

\* Node n is a top-level node whose header opens a block.
IsBlockNode(n) ==
    /\ IsGeneric(n)
    /\ SplitKeyValue(LineAt(lines, spans[n].start)).valPart = <<LBRACE>>
    /\ nodes[n].value.kind = "block"

\* C6: whatever the keys are, digit-only keys included, a block holds one
\* entry per distinct key, enumerated in the order in which the keys first
\* appear in the source, each with the value of the key's last occurrence.
C6_BlockKeepsFirstAppearanceOrder ==
    \A n \in 1..Len(nodes) :
        IsBlockNode(n) =>
            nodes[n].value.entries =
                FirstPlaceLastValue(SourceEntries(lines, spans[n].start + 1), <<>>)

\* A pass of a loop at line k either leaves the loop or moves to a later line.
Advances(r, k) == r.i <= Len(lines) /\ (r.exit \/ r.i > k)

\* A sub-parser started from line k returns a later index, within the lines.
\* C7_Inv states both for every line from the current one on.
Consumes(r, k) == k < r.nextIndex /\ r.nextIndex <= Len(lines)

C7_Inv ==
    /\ i <= Len(lines)
    /\ \A n \in 1..Len(spans) :
          spans[n].start < spans[n].next /\ spans[n].next <= Len(lines)
    /\ \A k \in i..(Len(lines) - 1) :
          /\ Advances(BlockIter(lines, k, <<>>), k)
          /\ Advances(ListIter(lines, k, <<>>), k)
          /\ Advances(MultilineIter(lines, k, <<>>), k)
          /\ Consumes(ParseLine(lines, k), k)
          /\ Consumes(ParseLintDirective(lines, k), k)
          /\ Consumes(ParseBlock(lines, k + 1), k)
          /\ Consumes(ParseList(lines, k + 1), k)
          /\ Consumes(ParseMultiline(lines, k + 1, NoAnnotation), k)

C7_Step == pc = "run" => (pc' # "run" \/ (i < i' /\ i' <= Len(lines)))

\* C7: parseDocument terminates: every pass of the driver loop and of the
\* block, list and multiline loops moves to a later line or leaves the loop,
\* every sub-parser returns an index after the line it started from, and the
\* index never exceeds the number of lines.
C7_IndexAdvancesWithinLines == [][C7_Step]_vars /\ []C7_Inv

\* C7 witness: a finished parse in which a sub-parser consumed several lines
\* and the driver went on to a further node.
C7_Witness ==
    /\ pc = "done"
    /\ Len(nodes) >= 2
    /\ spans[1].next > spans[1].start + 1

\* The text with line-feed line endings: each carriage return in front of a line feed removed.
RECURSIVE DropCrBeforeLf(_)
DropCrBeforeLf(t) ==
    IF Len(t) < 2 THEN t
    ELSE IF t[1] = CR /\ t[2] = LF THEN <<LF>> \o DropCrBeforeLf(SubSeq(t, 3, Len(t)))
    ELSE <<t[1]>> \o DropCrBeforeLf(Tail(t))

\* C8: a text with carriage-return + line-feed line endings parses to the
\* same document as the same text with line-feed line endings.
C8_CrlfSameDocument ==
    pc = "done" => nodes = ParseDocument(DropCrBeforeLf(input)).nodes

HasBang(s) == \E k \in 1..Len(s) : s[k] = BANG

IntWord == <<"i", "n", "t">>

\* C9 for node n, built from a key token tok and a value remainder val.
C9_Holds(n, tok, val) ==
    LET kt == ParseKeyAndType(tok)
        ann == kt.typeAnnotation
    IN /\ nodes[n].key = kt.key
       /\ ~HasBang(kt.key)
       /\ IF HasBang(tok)
          THEN ann.some /\ kt.key \o <<BANG>> \o ann.text = tok
          ELSE ann = NoAnnotation /\ ~ann.some /\ kt.key = tok
       /\ (ann # Annotation(QuotedWord)) => nodes[n].typeAnnotation = ann
       /\ (ann # Annotation(QuotedWord) /\ ~StartsWith(val, Fence)) =>
             /\ nodes[n].value = ParseValue(lines, spans[n].start, val, NoAnnotation).value
             /\ nodes[n].value = ParseValue(lines, spans[n].start, val, Annotation(IntWord)).value
             /\ nodes[n].value = ParseValue(lines, spans[n].start, val, Annotation(<<>>)).value

KeyToken(line) == IF MatchHeader(line).ok THEN MatchHeader(line).key ELSE Trim(line)

SelectsLineOriented(tok) == EndsWith(tok, <<COLON>>) /\ ~Includes(tok, SchemeSep)

\* C10: a header is treated as line-oriented exactly when its key token ends
\* with a colon and does not contain ://; then exactly one trailing colon is
\* removed from the key; in every other case the key token is used unchanged.
C10_LineOrientedIffColonKey ==
    \A n \in 1..Len(nodes) :
        IsGeneric(n) =>
            LET line == LineAt(lines, spans[n].start)
                tok == KeyToken(line)
                kv == SplitKeyValue(line)
            IN IF SelectsLineOriented(tok)
               THEN /\ kv.lineOriented
                    /\ kv.keyPart = SubSeq(tok, 1, Len(tok) - 1)
                    /\ kv.valPart = Trim(kv.valPart)
               ELSE /\ ~kv.lineOriented
                    /\ kv.keyPart = tok

\* The 0-based index of the first # of v, from position k on, that lies
\* outside double quotes; -1 when there is none.
RECURSIVE UnquotedHashFrom(_, _, _)
UnquotedHashFrom(v, k, inQuotes) ==
    IF k > Len(v) THEN -1
    ELSE IF v[k] = QUOTE THEN UnquotedHashFrom(v, k + 1, ~inQuotes)
    ELSE IF v[k] = HASH /\ ~inQuotes THEN k - 1
    ELSE UnquotedHashFrom(v, k + 1, inQuotes)

CutAt(v, idx) == IF idx >= 0 THEN Trim(Slice(v, 0, idx)) ELSE v

\* The remainder without the trailing comment that its first unquoted # starts.
DropUnquotedComment(v) == CutAt(v, UnquotedHashFrom(v, 1, FALSE))

\* Node n is a top-level node of a header in line-oriented mode.
IsLineOrientedNode(n) ==
    /\ IsGeneric(n)
    /\ MatchHeader(LineAt(lines, spans[n].start)).ok
    /\ SelectsLineOriented(MatchHeader(LineAt(lines, spans[n].start)).key)

\* C11: in line-oriented mode only a # outside double quotes starts a
\* trailing comment: the value remainder is the trimmed text after the key
\* token, cut at its first unquoted # and stripped of one pair of surrounding
\* double quotes, so a # inside a double-quoted value discards nothing.
C11_OnlyUnquotedHashStartsComment ==
    \A n \in 1..Len(nodes) :
        IsLineOrientedNode(n) =>
            SplitKeyValue(LineAt(lines, spans[n].start)).valPart =
                StripSurroundingQuotes(
                    DropUnquotedComment(Trim(MatchHeader(LineAt(lines, spans[n].start)).rest)))

\* The text of a header line after its key token and the white space behind it.
Remainder(line) == IF MatchHeader(line).ok THEN MatchHeader(line).rest ELSE <<>>

\* The text s without its first and its last character.
Inner(s) == SubSeq(s, 2, Len(s) - 1)

\* Node n is a top-level node of a header in traditional mode.
IsTraditionalNode(n) ==
    /\ IsGeneric(n)
    /\ ~SelectsLineOriented(KeyToken(LineAt(lines, spans[n].start)))

\* The remainder rest behind a colon-terminated key.
UnderColonKey(rest) == <<"k", COLON, SP>> \o rest

\* C12 for the header line of a node in traditional mode.
C12_Holds(n, line) ==
    LET rest == Remainder(line)
        kv == SplitKeyValue(line)
    IN /\ kv.valPart \in {rest, Inner(rest)}
       /\ \A k \in 1..Len(rest) : rest[k] = HASH => Includes(kv.valPart, SubSeq(rest, k, Len(rest) - 1))
       /\ (nodes[n].value.kind = "scalar" /\ nodes[n].typeAnnotation # Annotation(StringWord)) =>
              nodes[n].value = Scalar(kv.valPart)
       /\ ~Includes(SplitKeyValue(UnderColonKey(rest)).valPart, <<HASH>>)

\* C12: in traditional mode no comment is stripped: the value remainder is
\* all the text after the key token, less at most one pair of surrounding
\* double quotes, so every # and the text after it stay in the value, while
\* the same remainder behind a colon-terminated key keeps no #.
C12_TraditionalKeepsHash ==
    \A n \in 1..Len(nodes) :
        IsTraditionalNode(n) => C12_Holds(n, LineAt(lines, spans[n].start))

\* C12 witness: a finished parse with the node of the traditional header
\* n J # c, whose value holds the # and the text after it.
C12_Witness ==
    /\ pc = "done"
    /\ \E n \in 1..Len(nodes) :
          /\ LineAt(lines, spans[n].start) = TradHashLine
          /\ nodes[n] = MkNode(<<"n">>, NoAnnotation, Scalar(<<"J", SP, HASH, SP, "c">>))
          /\ SplitKeyValue(UnderColonKey(Remainder(TradHashLine))).valPart = <<"J">>

\* The value remainder of a header line as it stands before quote stripping.
Unstripped(line) ==
    IF ~MatchHeader(line).ok THEN <<>>
    ELSE IF SelectsLineOriented(MatchHeader(line).key)
    THEN DropComment(Trim(MatchHeader(line).rest))
    ELSE MatchHeader(line).rest

\* The text s is wrapped in a pair of double quotes.
IsWrapped(s) == Len(s) >= 2 /\ s[1] = QUOTE /\ s[Len(s)] = QUOTE

\* C13: quote stripping removes the first and the last character of the
\* value remainder exactly when the remainder has at least two characters and
\* both are double quotes, and returns it unchanged otherwise; it is applied
\* once per header in both modes, so of two pairs of quotes the inner pair
\* stays and a remainder that is one double quote is unchanged.
C13_OneLayerOfQuotesStripped ==
    \A n \in 1..Len(nodes) :
        IsGeneric(n) =>
            LET pre == Unstripped(LineAt(lines, spans[n].start))
                kv == SplitKeyValue(LineAt(lines, spans[n].start))
            IN /\ kv.valPart = (IF IsWrapped(pre) THEN Inner(pre) ELSE pre)
               /\ (nodes[n].value.kind = "scalar" /\ nodes[n].typeAnnotation # Annotation(StringWord)) =>
                      nodes[n].value = Scalar(IF IsWrapped(pre) THEN Inner(pre) ELSE pre)

\* C13 witness: a finished parse with the node of a traditional header whose
\* value had two pairs of quotes and keeps one, and the node of a
\* line-oriented header whose value had one pair and keeps none.
C13_Witness ==
    /\ pc = "done"
    /\ \E n \in 1..Len(nodes) :
          /\ LineAt(lines, spans[n].start) = TwoQuotesLine
          /\ nodes[n].value = Scalar(<<QUOTE, "x", QUOTE>>)
    /\ \E n \in 1..Len(nodes) :
          /\ LineAt(lines, spans[n].start) = LoQuotedLine
          /\ nodes[n].value = Scalar(<<"x">>)

\* Node n is a top-level node of a header whose type annotation is quoted.
IsQuotedNode(n) ==
    /\ IsGeneric(n)
    /\ ParseKeyAndType(SplitKeyValue(LineAt(lines, spans[n].start)).keyPart).typeAnnotation
           = Annotation(QuotedWord)

\* C14: whatever the value remainder of a header annotated quoted is, its
\* node is a scalar with the annotation string, its value is wrapped in a
\* pair of double quotes (at least two characters, the first and the last a
\* double quote), and the header consumes exactly one line.
C14_QuotedIsWrappedScalar ==
    \A n \in 1..Len(nodes) :
        IsQuotedNode(n) =>
            /\ nodes[n].value.kind = "scalar"
            /\ nodes[n].typeAnnotation = Annotation(StringWord)
            /\ IsWrapped(nodes[n].value.text)
            /\ spans[n].next = spans[n].start + 1

\* A non-empty string of decimal digits.
IsDigits(s) == s # <<>> /\ \A k \in 1..Len(s) : s[k] \in Digits

\* Node n is a top-level node whose header opens a multiline text.
IsMultilineNode(n) ==
    /\ IsGeneric(n)
    /\ StartsWith(SplitKeyValue(LineAt(lines, spans[n].start)).valPart, Fence)
    /\ nodes[n].typeAnnotation # Annotation(StringWord)

\* The joined text of the multiline node n before any dedenting.
JoinedText(n) == ParseMultiline(lines, spans[n].start + 1, NoAnnotation).value.text

\* Line by line, out is raw with the first amount characters of every line
\* that has that many removed.
IsDedentOf(out, raw, amount) ==
    /\ Len(out) = Len(raw)
    /\ \A j \in 1..Len(raw) :
          out[j] = IF Len(raw[j]) >= amount
                   THEN SubSeq(raw[j], amount + 1, Len(raw[j]))
                   ELSE raw[j]

C16_NonNumericAnnotationKeepsText ==
    \A n \in 1..Len(nodes) :
        (IsMultilineNode(n) /\ ~(nodes[n].typeAnnotation.some
                                 /\ IsDigits(nodes[n].typeAnnotation.text))) =>
            nodes[n].value = Scalar(JoinedText(n))

NotWhite(c) == c \notin WhiteSpace

\* The text s without its white space.
Squeeze(s) == SelectSeq(s, NotWhite)

\* The text v is a bracketed list whose elements hold no white space.
IsPlainInlineList(v) ==
    /\ Len(v) >= 2 /\ v[1] = LBRACKET /\ v[Len(v)] = RBRACKET
    /\ \A j \in 1..Len(Split(Inner(v), COMMA)) :
          Trim(Split(Inner(v), COMMA)[j]) = Squeeze(Split(Inner(v), COMMA)[j])

\* The elements written between the brackets of the white-space-free text v.
ElementsOf(v) ==
    IF Inner(v) = <<>> THEN <<>>
    ELSE [j \in 1..Len(Split(Inner(v), COMMA)) |-> Scalar(Split(Inner(v), COMMA)[j])]

\* Node n is a top-level node whose header has an inline list as value.
IsInlineListNode(n) ==
    /\ IsGeneric(n)
    /\ nodes[n].typeAnnotation # Annotation(StringWord)
    /\ IsPlainInlineList(SplitKeyValue(LineAt(lines, spans[n].start)).valPart)

\* C17: an inline list of white-space-free elements does not depend on the
\* white space after [, before ] and around each comma: its value is the list
\* of the elements in order, the same as that of the list written without
\* any white space, and empty or white-space-only content gives the empty list.
C17_InlineListIgnoresWhitespace ==
    \A n \in 1..Len(nodes) :
        IsInlineListNode(n) =>
            LET v == SplitKeyValue(LineAt(lines, spans[n].start)).valPart
            IN /\ nodes[n].value = ListOf(ElementsOf(Squeeze(v)))
               /\ nodes[n].value = ListOf(ParseInlineList(Squeeze(v)))
               /\ Squeeze(Inner(v)) = <<>> => nodes[n].value = ListOf(<<>>)

\* C17 witness: a finished parse of the same list written without and with
\* white space around its elements, with the same two-element value.
C17_Witness ==
    /\ pc = "done"
    /\ lines = <<TightListLine, LooseListLine>>
    /\ Len(nodes) = 2
    /\ nodes[1].value = ListOf(<<Scalar(<<"r">>), Scalar(<<"g">>)>>)
    /\ nodes[2].value = nodes[1].value

\* The text a without one leading [ and one trailing ], where it has them.
StripBrackets(a) ==
    LET b == IF a # <<>> /\ a[1] = LBRACKET THEN Tail(a) ELSE a
    IN IF b # <<>> /\ b[Len(b)] = RBRACKET THEN SubSeq(b, 1, Len(b) - 1) ELSE b

\* The trimmed elements written in a, every character but the brackets kept.
CompleteElements(a) ==
    IF Trim(StripBrackets(Trim(a))) = <<>> THEN <<>>
    ELSE [j \in 1..Len(Split(StripBrackets(Trim(a)), COMMA)) |->
             Scalar(Trim(Split(StripBrackets(Trim(a)), COMMA)[j]))]

\* Node n is the node of a top-level !use directive.
IsUseNode(n) == IsUse(LineAt(lines, spans[n].start))

\* Node n is a top-level node whose value the dispatcher reads as an inline list.
IsListValueNode(n) ==
    /\ IsGeneric(n)
    /\ nodes[n].typeAnnotation # Annotation(StringWord)
    /\ nodes[n].value.kind = "list"
    /\ spans[n].next = spans[n].start + 1
    /\ Len(SplitKeyValue(LineAt(lines, spans[n].start)).valPart) >= 2

\* Line k is read as an inline-list element of a multi-line list.
IsListElementLine(k) ==
    /\ LineAt(lines, k) # <<>>
    /\ Len(Trim(LineAt(lines, k))) >= 2
    /\ StartsWith(Trim(LineAt(lines, k)), <<LBRACKET>>)
    /\ EndsWith(Trim(LineAt(lines, k)), <<RBRACKET>>)

\* C18: at each caller of the inline-list parser (the !use argument, the
\* header value, the element line of a multi-line list) the only characters
\* taken off the text before it is split on commas are one leading [ and one
\* trailing ], so every element written after the [ is complete in the result.
C18_OnlyBracketsAreRemoved ==
    /\ \A n \in 1..Len(nodes) :
          IsUseNode(n) =>
              nodes[n].value =
                  Namespaces(CompleteElements(UseContent(Trim(LineAt(lines, spans[n].start)))))
    /\ \A n \in 1..Len(nodes) :
          IsListValueNode(n) =>
              nodes[n].value =
                  ListOf(CompleteElements(SplitKeyValue(LineAt(lines, spans[n].start)).valPart))
    /\ \A k \in 0..(Len(lines) - 1) :
          IsListElementLine(k) =>
              ListIter(lines, k, <<>>).items = <<ListOf(CompleteElements(LineAt(lines, k)))>>

\* The 1-based position of the last } of v.
LastBrace(v) == CHOOSE k \in 1..Len(v) : v[k] = RBRACE /\ \A j \in (k + 1)..Len(v) : v[j] # RBRACE

\* The text of v between its leading { and its trailing }.
BetweenBraces(v) == Trim(SubSeq(v, 2, LastBrace(v) - 1))

\* The entries the comma-separated segments of content give, one after the other.
SegmentEntries(content) ==
    IF content = <<>> THEN <<>> ELSE InlineBlockLoop(Split(content, COMMA), <<>>)

\* Node n is a top-level node whose value passes the inline-block guard.
IsInlineBlockNode(n) ==
    /\ IsGeneric(n)
    /\ nodes[n].typeAnnotation # Annotation(StringWord)
    /\ StartsWith(SplitKeyValue(LineAt(lines, spans[n].start)).valPart, <<LBRACE>>)
    /\ Includes(SplitKeyValue(LineAt(lines, spans[n].start)).valPart, <<RBRACE>>)

\* C19: a value remainder that starts with { and contains } gives the block
\* built from the text between the leading { and the trailing } only: one
\* entry per comma-separated segment, keyed by the segment's key token
\* without its type suffix, valued by the segment's remainder as a raw
\* string, a later duplicate overwriting an earlier one, and the empty block
\* for empty content.
C19_InlineBlockFromTextBetweenBraces ==
    \A n \in 1..Len(nodes) :
        IsInlineBlockNode(n) =>
            LET v == SplitKeyValue(LineAt(lines, spans[n].start)).valPart
            IN /\ nodes[n].value = BlockOf(SegmentEntries(BetweenBraces(v)))
               /\ \A j \in 1..Len(nodes[n].value.entries) :
                     /\ nodes[n].value.entries[j].value.kind = "scalar"
                     /\ ~HasBang(nodes[n].value.entries[j].key)
               /\ spans[n].next = spans[n].start + 1

\* The elements of the multi-line list whose body starts at line k: one per
\* non-blank, non-comment line up to the closing ], in source order.
RECURSIVE ElementsFrom(_, _)
ElementsFrom(ls, k) ==
    IF k >= Len(ls) \/ Trim(LineAt(ls, k)) = <<RBRACKET>> THEN <<>>
    ELSE IF IsBlankLine(LineAt(ls, k)) \/ IsCommentLine(LineAt(ls, k))
    THEN ElementsFrom(ls, k + 1)
    ELSE IF /\ StartsWith(Trim(LineAt(ls, k)), <<LBRACKET>>)
            /\ EndsWith(Trim(LineAt(ls, k)), <<RBRACKET>>)
    THEN <<ListOf(CompleteElements(LineAt(ls, k)))>> \o ElementsFrom(ls, k + 1)
    ELSE IF Trim(LineAt(ls, k)) = <<LBRACE>>
    THEN <<ParseBlock(ls, k + 1).value>> \o ElementsFrom(ls, ParseBlock(ls, k + 1).nextIndex)
    ELSE <<Scalar(Trim(LineAt(ls, k)))>> \o ElementsFrom(ls, k + 1)

\* Node n is a top-level node whose header opens a multi-line list.
IsListNode(n) ==
    /\ IsGeneric(n)
    /\ nodes[n].typeAnnotation # Annotation(StringWord)
    /\ SplitKeyValue(LineAt(lines, spans[n].start)).valPart = <<LBRACKET>>

\* C20: in a multi-line list every non-blank, non-comment line before the
\* closing ] gives exactly one element, in source order: an inline list when
\* its trimmed text starts with [ and ends with ], a nested block (with the
\* lines through its }) when its trimmed text is {, and otherwise the
\* trimmed text of the line as a scalar, neither split nor stripped of quotes.
C20_ListHasOneElementPerLine ==
    \A n \in 1..Len(nodes) :
        IsListNode(n) => nodes[n].value = ListOf(ElementsFrom(lines, spans[n].start + 1))

\* A well-formed !use line: the text after the token is a bracketed list.
WellFormedUse(line) ==
    /\ StartsWith(Trim(line), UseToken)
    /\ StartsWith(Trim(SliceFrom(Trim(line), 4)), <<LBRACKET>>)
    /\ EndsWith(Trim(SliceFrom(Trim(line), 4)), <<RBRACKET>>)

\* A well-formed !lint line: the text after the token is an opening brace.
WellFormedLint(line) ==
    /\ StartsWith(Trim(line), LintToken)
    /\ Trim(SliceFrom(Trim(line), 5)) = <<LBRACE>>

\* The pseudo-node of the well-formed !use line.
UseNodeOf(line) ==
    LET es == CompleteElements(Trim(SliceFrom(Trim(line), 4)))
    IN MkNode(UseKey, Annotation(DirectiveWord), UseOf([j \in 1..Len(es) |-> es[j].text]))

\* The step appends exactly the node nd and moves the driver to line k.
AppendsOne(nd, k) ==
    /\ nodes' = Append(nodes, nd)
    /\ spans' = Append(spans, [start |-> i, next |-> k])
    /\ i' = k
    /\ pc' = "run"

C21_Step ==
    /\ (AtLine /\ WellFormedUse(Current)) => AppendsOne(UseNodeOf(Current), i + 1)
    /\ (AtLine /\ WellFormedLint(Current)) =>
           AppendsOne(MkNode(LintKey, Annotation(DirectiveWord), ParseBlock(lines, i + 1).value),
                      ParseBlock(lines, i + 1).nextIndex)

CloserOf(v) ==
    IF v = <<LBRACE>> THEN <<RBRACE>> ELSE IF v = <<LBRACKET>> THEN <<RBRACKET>> ELSE Fence

\* Node n is a top-level node whose header opens a block, a list or a
\* multiline text, and no later line is the closing delimiter.
IsUnterminated(n) ==
    LET v == SplitKeyValue(LineAt(lines, spans[n].start)).valPart
    IN /\ IsGeneric(n)
       /\ nodes[n].typeAnnotation # Annotation(StringWord)
       /\ v = <<LBRACE>> \/ v = <<LBRACKET>> \/ StartsWith(v, Fence)
       /\ \A k \in (spans[n].start + 1)..(Len(lines) - 1) : Trim(LineAt(lines, k)) # CloserOf(v)

\* The number of lines up to the last one that is not empty.
LastNonEmpty ==
    LET ks == {k \in 1..Len(lines) : lines[k] # <<>>}
    IN IF ks = {} THEN 0 ELSE CHOOSE k \in ks : \A j \in ks : j <= k

\* The lines after line s, without the empty lines that end the input.
LinesAfter(s) == SubSeq(lines, s + 2, LastNonEmpty)

\* The entries of the block whose body runs from line k to the end of the
\* input: one per header line found there, blank and comment lines skipped.
RECURSIVE EntriesFrom(_, _, _)
EntriesFrom(ls, k, es) ==
    IF k >= Len(ls) THEN es
    ELSE IF IsBlankLine(LineAt(ls, k)) \/ IsCommentLine(LineAt(ls, k))
    THEN EntriesFrom(ls, k + 1, es)
    ELSE EntriesFrom(ls, ParseLine(ls, k).nextIndex,
                     BlockSet(es, ParseLine(ls, k).node.key, ParseLine(ls, k).node.value))

\* The value of the unterminated construct that v opens on line s.
BodyValue(v, s) ==
    IF v = <<LBRACE>> THEN BlockOf(EntriesFrom(lines, s + 1, <<>>))
    ELSE IF v = <<LBRACKET>> THEN ListOf(ElementsFrom(lines, s + 1))
    ELSE Scalar(Join(LinesAfter(s), <<LF>>))

\* C22: a block, list or multiline text whose closing delimiter never
\* appears ends at the end of the input without an error: its node is the
\* last node of the document, it consumes every line after its opening line,
\* and it holds every entry, element or line found there.
C22_UnterminatedConstructRunsToEnd ==
    \A n \in 1..Len(nodes) :
        IsUnterminated(n) =>
            /\ pc # "error"
            /\ n = Len(nodes)
            /\ spans[n].next >= LastNonEmpty
            /\ ~nodes[n].typeAnnotation.some =>
                   nodes[n].value =
                       BodyValue(SplitKeyValue(LineAt(lines, spans[n].start)).valPart,
                                 spans[n].start)

\* The line is a header with the annotation table whose remainder opens a brace construct.
IsTableHeader(line) ==
    /\ UpKeyTypeValue(line).type = TableWord
    /\ StartsWith(UpKeyTypeValue(line).valuePart, <<LBRACE>>)

\* Line k is a columns line with a bracketed list of white-space-free names.
IsColumnsLine(k) ==
    /\ k < Len(lines)
    /\ StartsWith(LineAt(lines, k), ColumnsWord)
    /\ IsPlainInlineList(Trim(SubSeq(LineAt(lines, k), 8, Len(LineAt(lines, k)))))

\* Line k is a row: a bracketed list of white-space-free cells.
IsRowLine(k) == k < Len(lines) /\ IsPlainInlineList(Trim(LineAt(lines, k)))

\* The cells written on line k.
CellsOf(k) == ElementsOf(Squeeze(LineAt(lines, k)))

\* C23: in UpParser a header whose type annotation is table and whose
\* remainder opens a brace construct, the remainder { included, gives a table
\* and not a block: its columns are those of the columns line and its rows
\* those of the rows block, one per inline list.
C23_TableAnnotationGivesTable ==
    \A n \in 1..Len(nodes) :
        IsTableHeader(LineAt(lines, spans[n].start)) =>
            LET s == spans[n].start
            IN /\ nodes[n].value.kind = "table"
               /\ IsColumnsLine(s + 1) =>
                     nodes[n].value.columns =
                         SetTo(ElementsOf(Squeeze(SubSeq(LineAt(lines, s + 1), 8,
                                                         Len(LineAt(lines, s + 1))))))
               /\ (IsColumnsLine(s + 1) /\ s + 2 < Len(lines) /\ LineAt(lines, s + 2) = RowsLine
                   /\ IsRowLine(s + 3)) =>
                     /\ nodes[n].value.rows.set
                     /\ Len(nodes[n].value.rows.items) >= 1
                     /\ nodes[n].value.rows.items[1] = CellsOf(s + 3)

\* A pass of a loop of UpParser at line k either leaves the loop or moves the
\* line counter forward, within the lines.
UpAdvances(r, k) == ~r.spin /\ r.lineNum <= Len(lines) /\ (r.exit \/ r.lineNum > k)

\* Line k is the first line behind a header that #parseValue hands to #parseTable.
InTableBody(k) ==
    /\ k >= 1
    /\ IsTableHeader(LineAt(lines, k - 1))
    /\ UpKeyTypeValue(LineAt(lines, k - 1)).valuePart # <<LBRACE>>

\* Line k is the first line behind the rows line that opens such a table's body.
InRowsBody(k) ==
    /\ k >= 2
    /\ InTableBody(k - 1)
    /\ StartsWith(Trim(LineAt(lines, k - 1)), RowsWord)

C24_Inv ==
    /\ pc # "spin"
    /\ i <= Len(lines)
    /\ \A k \in i..(Len(lines) - 1) :
          /\ UpAdvances(UpNodesIter(lines, k, <<>>, <<>>), k)
          /\ UpAdvances(UpNodesIter(lines, k, <<RBRACE>>, <<>>), k)
          /\ UpAdvances(UpListIter(lines, k, <<>>), k)
          /\ UpAdvances(UpMultilineIter(lines, k, <<>>), k)
          /\ InTableBody(k) => UpAdvances(UpTableIter(lines, k, TableOf(Unset, Unset)), k)
          /\ InRowsBody(k) => UpAdvances(UpRowsIter(lines, k, <<>>), k)

C24_Step == pc = "run" => (pc' = "done" \/ (pc' = "run" /\ i < i' /\ i' <= Len(lines)))

\* C24: UpParser.parse terminates on every input: every pass of the loops of
\* parseNodes, parseList, parseMultiline, parseTable and parseBlockOfLists
\* moves the line counter forward or leaves the loop, whatever the current
\* line holds, so no call runs forever.
C24_EveryPassAdvances == [][C24_Step]_vars /\ []C24_Inv

\* The five structural guards of the value dispatcher, as the claim words them.
StartsWithFence(v) == StartsWith(v, Fence)
IsOpenBrace(v) == v = <<LBRACE>>
IsOpenBracket(v) == v = <<LBRACKET>>
IsBracketed(v) == StartsWith(v, <<LBRACKET>>) /\ EndsWith(v, <<RBRACKET>>)
IsBraced(v) == StartsWith(v, <<LBRACE>>) /\ Includes(v, <<RBRACE>>)

\* How many of the five guards are true of v.
GuardsTrue(v) ==
    Cardinality({g \in 1..5 :
        \/ g = 1 /\ StartsWithFence(v)
        \/ g = 2 /\ IsOpenBrace(v)
        \/ g = 3 /\ IsOpenBracket(v)
        \/ g = 4 /\ IsBracketed(v)
        \/ g = 5 /\ IsBraced(v)})

\* The dispatcher with its guards tested in the opposite order.
ReverseDispatch(ls, s, v, a) ==
    IF IsBraced(v) THEN [value |-> ParseInlineBlock(v), nextIndex |-> s + 1]
    ELSE IF IsBracketed(v) THEN [value |-> ListOf(ParseInlineList(v)), nextIndex |-> s + 1]
    ELSE IF IsOpenBracket(v) THEN ParseList(ls, s + 1)
    ELSE IF IsOpenBrace(v) THEN ParseBlock(ls, s + 1)
    ELSE IF StartsWithFence(v) THEN ParseMultiline(ls, s + 1, a)
    ELSE [value |-> Scalar(v), nextIndex |-> s + 1]

\* Node n is a top-level node whose value came from the value dispatcher.
IsDispatched(n) ==
    /\ IsGeneric(n)
    /\ ParseKeyAndType(SplitKeyValue(LineAt(lines, spans[n].start)).keyPart).typeAnnotation
           # Annotation(QuotedWord)

\* C25: for every value remainder at most one of the five structural guards
\* of the value dispatcher is true, so the node is the one the guards give
\* when tested in the opposite order; when no guard is true the value is the
\* remainder verbatim and exactly one line is consumed.
C25_GuardsMutuallyExclusive ==
    \A n \in 1..Len(nodes) :
        IsDispatched(n) =>
            LET s == spans[n].start
                v == SplitKeyValue(LineAt(lines, s)).valPart
            IN /\ GuardsTrue(v) <= 1
               /\ nodes[n].value = ReverseDispatch(lines, s, v, nodes[n].typeAnnotation).value
               /\ spans[n].next = ReverseDispatch(lines, s, v, nodes[n].typeAnnotation).nextIndex
               /\ GuardsTrue(v) = 0 => (nodes[n].value = Scalar(v) /\ spans[n].next = s + 1)

\* C25 witness: a header whose remainder starts with { and with [ and meets
\* no guard: a scalar on one line.
C25_Witness ==
    /\ pc = "done"
    /\ input = <<"k", SP, LBRACE, LBRACKET, "a">>
    /\ Len(nodes) = 1
    /\ nodes[1].value = Scalar(<<LBRACE, LBRACKET, "a">>)
    /\ spans[1] = [start |-> 0, next |-> 1]

IsNonEmpty(line) == line # <<>>

\* The non-empty lines of the text t.
NonEmptyLinesOf(t) == SelectSeq(Split(t, LF), IsNonEmpty)

\* The non-empty lines strictly between the opening fence on line h and its closing fence.
FencedLines(h) == SelectSeq(SubSeq(lines, h + 2, ClosingFence(lines, h)), IsNonEmpty)

\* The place of key k in the entries es.
EntryIndex(es, k) == CHOOSE n \in 1..Len(es) : es[n].key = k

\* Node n holds every non-empty line behind line h up to line c, the closing fence.
ConsumedThrough(n, h, c) ==
    \A k \in (h + 1)..Min(c, Len(lines) - 1) : LineAt(lines, k) # <<>> => k < spans[n].next

\* Node n is a top-level block whose first body line opens a multiline text.
IsBlockWithFence(n) ==
    /\ IsBlockNode(n)
    /\ spans[n].start + 1 < Len(lines)
    /\ LineAt(lines, spans[n].start + 1) = OpenFenceLine

\* C26: while a multiline fence is open no non-empty line is read as
\* structure: lines that are } or ], comments and directive lines are lines
\* of the text, they start no node, raise no error and do not close the
\* enclosing block; behind the closing fence the enclosing block goes on and
\* ends where its own body ends.
C26_FencedLinesAreText ==
    \A n \in 1..Len(nodes) :
        /\ IsPlainMultiline(n) =>
              LET s == spans[n].start
                  c == ClosingFence(lines, s)
              IN /\ NonEmptyLinesOf(nodes[n].value.text) = FencedLines(s)
                 /\ ConsumedThrough(n, s, c)
        /\ IsBlockWithFence(n) =>
              LET h == spans[n].start + 1
                  c == ClosingFence(lines, h)
              IN /\ HasKey(nodes[n].value.entries, <<"m">>)
                 /\ nodes[n].value.entries[EntryIndex(nodes[n].value.entries, <<"m">>)].value.kind = "scalar"
                 /\ NonEmptyLinesOf(nodes[n].value.entries[EntryIndex(nodes[n].value.entries, <<"m">>)].value.text)
                        = FencedLines(h)
                 /\ ConsumedThrough(n, h, c)
                 /\ c < Len(lines) => spans[n].next = ParseBlock(lines, c + 1).nextIndex

\* C27: whatever was parsed before on the same instance, a call of parse
\* returns what a fresh instance returns for the same input; the node being
\* built and the line counter depend on the current input alone.
C27_ResultDependsOnInputOnly ==
    /\ pc = "done" =>
          /\ nodes = UpParse(input).nodes
          /\ i = UpParse(input).lineNum
    /\ pc = "run" =>
          /\ lines = UpSplit(input)
          /\ i <= Len(lines)

\* C27 witness: a second call returned after the first one had stopped inside
\* an unterminated block.
C27_Witness ==
    /\ pc = "done"
    /\ previous = [some |-> TRUE, text |-> OpenBlockLine \o <<LF>> \o ScalarLine]
    /\ input = ScalarLine \o <<LF>> \o OpenListLine
    /\ Len(nodes) = 2
    /\ nodes[1] = MkUpNode(<<"a">>, <<>>, Scalar(<<"x">>))
    /\ nodes[2] = MkUpNode(<<"l">>, <<>>, ListOf(<<>>))

\* The lines of the grammar the two parsers share.
CommonPool ==
    {EmptyLine, CommentLine, ScalarLine, TypedLine, ShortBodyLine,
     OpenBlockLine, CloseBlockLine, OpenListLine, CloseListLine}

InCommonGrammar(ls) == \A k \in 1..Len(ls) : ls[k] \in CommonPool

\* Two nodes that start on the same line and end before lines a and b hold the
\* same lines, empty lines aside.
SameLinesTaken(a, b) == \A k \in Min(a, b)..(Max(a, b) - 1) : LineAt(lines, k) = <<>>

\* C28: on the grammar the two parsers share, Parser.parseDocument and
\* UpParser.parse give the same top-level keys with the same nested values,
\* and each node takes the same lines in both.
C28_ParsersAgreeOnCommonGrammar ==
    (pc = "done" /\ InCommonGrammar(lines)) =>
        /\ ~ParseDocument(input).raised
        /\ Len(ParseDocument(input).nodes) = Len(nodes)
        /\ \A n \in 1..Len(nodes) :
              /\ ParseDocument(input).nodes[n].key = nodes[n].key
              /\ ParseDocument(input).nodes[n].value = nodes[n].value
              /\ SameLinesTaken(ParseLine(Split(input, LF), spans[n].start).nextIndex,
                                spans[n].next)

\* The remainder ends in white space behind a structural form.
HasTrailingSpace(rest) == TrimEnd(rest) # rest /\ TrimEnd(rest) # <<>>

\* The remainder, its trailing white space aside, is one of the forms the claim names.
IsStructuralForm(v) == IsOpenBrace(v) \/ IsOpenBracket(v) \/ IsBracketed(v)

\* C29: in traditional mode the remainder keeps its trailing white space, so
\* {, [ and [a, b] followed by spaces give a scalar on one line and the next
\* line is parsed at the enclosing level; behind a colon-terminated key the
\* remainder is trimmed first and the same text opens the block or list or is
\* the inline list.
C29_TrailingSpaceDefeatsGuards ==
    \A n \in 1..Len(nodes) :
        (/\ IsDispatched(n)
         /\ MatchHeader(LineAt(lines, spans[n].start)).ok
         /\ HasTrailingSpace(Remainder(LineAt(lines, spans[n].start)))
         /\ IsStructuralForm(TrimEnd(Remainder(LineAt(lines, spans[n].start))))) =>
            LET s == spans[n].start
                rest == Remainder(LineAt(lines, s))
            IN IF SelectsLineOriented(KeyToken(LineAt(lines, s)))
               THEN /\ IsOpenBrace(Trim(rest)) =>
                          /\ nodes[n].value = ParseBlock(lines, s + 1).value
                          /\ spans[n].next = ParseBlock(lines, s + 1).nextIndex
                    /\ IsOpenBracket(Trim(rest)) =>
                          /\ nodes[n].value = ParseList(lines, s + 1).value
                          /\ spans[n].next = ParseList(lines, s + 1).nextIndex
                    /\ IsBracketed(Trim(rest)) =>
                          /\ nodes[n].value = ListOf(CompleteElements(rest))
                          /\ spans[n].next = s + 1
               ELSE /\ nodes[n].value = Scalar(rest)
                    /\ spans[n].next = s + 1
                    /\ (pc = "done" /\ s + 1 < Len(lines) /\ ~IsSkipped(LineAt(lines, s + 1))) =>
                          (n < Len(nodes) /\ spans[n + 1].start = s + 1)

\* C29 witness: s { with trailing spaces is a scalar and the line behind it a
\* top-level node; the same text behind s: opens a block.
C29_Witness ==
    /\ pc = "done"
    /\ lines = <<TrailBraceLine, ScalarLine, ColonTrailBraceLine>>
    /\ Len(nodes) = 3
    /\ nodes[1].value = Scalar(<<LBRACE, SP, SP>>)
    /\ spans[1] = [start |-> 0, next |-> 1]
    /\ nodes[2].key = <<"a">>
    /\ nodes[3].key = <<"s">>
    /\ nodes[3].value = BlockOf(<<>>)

====
